---- MODULE Spec2Model ----
(***************************************************************************)
(* Paging simulator (simulacion-mmu): the per-policy simulation engine     *)
(* (processAlgorithmStep), the six replacement policies and the dual       *)
(* policy driver of SimulationScreen.tsx, modelled as a state machine.     *)
(*                                                                         *)
(* Conventions used to carry JavaScript values:                            *)
(*   - an `undefined` number is UndefNum, an `undefined` string/id is      *)
(*     NoPageId / NoPid / NoDisk, an `undefined` boolean is "undefined"    *)
(*     (booleans that may be undefined are the strings "true"/"false");    *)
(*   - ramFrames is a sequence; frame f (frameId f, 0-based as in the      *)
(*     code) sits at index f + 1;                                          *)
(*   - a logical page id `ptr<ptrId>_page<i>_pid<pid>` is the tuple        *)
(*     <<ptrId, i, pid>>; `disk_<id>` is <<"disk", id>>;                   *)
(*   - internalFragmentationKb is kept in units of 1/1024 KB (bytes), the  *)
(*     two percentages as <<numerator, denominator>>;                      *)
(*   - a seeded generator is the record [key, calls]: its key is the       *)
(*     string it was seeded with and calls the number of draws made.       *)
(***************************************************************************)
EXTENDS Integers, Sequences, FiniteSets, TLC

\* ------------------------------------------------------------------------
\* State of the SimulationScreen component: its props (params, operations,
\* initialNextPtrId) and its useState cells.  twin is a second session
\* created with the same seed, algorithm and instruction list: its two
\* engines and its instruction index.  policyCall is one call of a
\* replacement policy made outside a session: the policy's name, the
\* context handed to it and what the call produced.
\* ------------------------------------------------------------------------
VARIABLES params, operations, initialNextPtrId,
          optSimState, selectedAlgoSimState,
          isPaused, currentOperationIndex, twin, policyCall,
          setupScreen

vars == <<params, operations, initialNextPtrId,
          optSimState, selectedAlgoSimState,
          isPaused, currentOperationIndex, twin, policyCall,
          setupScreen>>

\* ------------------------------------------------------------------------
\* Program constants
\* ------------------------------------------------------------------------
PAGE_SIZE_BYTES == 4096
PAGE_SIZE_KB == 4
\* The program has 100 frames; the model is run with a small RAM so that
\* replacement is reached within short instruction streams.
TOTAL_RAM_FRAMES == 3
TOTAL_RAM_KB == TOTAL_RAM_FRAMES * PAGE_SIZE_KB
HIT_TIME == 1
FAULT_TIME == 5

UndefNum == -1
NoPageId == <<>>
NoDisk == <<>>
NoPid == "undefined"
Infinity == 999999

\* ------------------------------------------------------------------------
\* Bounds of the model
\* ------------------------------------------------------------------------
MaxOps == 3
\* A draw of the generator is a fraction n / RngDen, n in 0 .. RngDen-1.
RngDen == 6
\* Contexts handed to a policy directly: the timestamps of their frames are
\* 1 .. MaxStamp, their generator has made 0 .. MaxDraws draws, and the
\* instruction list they carry has FutureLen instructions.
MaxStamp == 3
\* The setup screen generates streams for 1 .. MaxProcs processes and
\* 0 .. MaxGenOps operations, and reads files of up to MaxLines lines.
MaxProcs == 2
MaxGenOps == 3
MaxLines == 3
MaxDraws == 2
FutureLen == 2

AlgorithmName == {"FIFO", "SC", "MRU", "RND", "OPT", "LRU"}
\* The policies the setup form offers for the second engine.
SelectableAlgorithms == {"FIFO", "SC", "MRU", "LRU", "RND"}
Seeds == {"s0", "s1"}

\* ------------------------------------------------------------------------
\* Small helpers
\* ------------------------------------------------------------------------
Max(a, b) == IF a >= b THEN a ELSE b

\* Math.ceil(size / PAGE_SIZE_BYTES) for a non-negative integer size.
CeilDiv(a, b) == (a + b - 1) \div b

\* `ptr${ptrId}_page${i}_pid${pid}`
LogicalPageId(ptrId, i, pid) == <<ptrId, i, pid>>

\* `disk_${id}`
DiskAddress(id) == <<"disk", id>>

\* mmu.findIndex(p => p.id === id), 1-based; 0 when there is none.
FindPageIndex(mmu, id) ==
  IF \E k \in 1..Len(mmu) : mmu[k].id = id
    THEN CHOOSE k \in 1..Len(mmu) :
           /\ mmu[k].id = id
           /\ \A j \in 1..(k-1) : mmu[j].id # id
    ELSE 0

\* ramFrames.find(f => !f.isOccupied), as an index; 0 when RAM is full.
FindFreeFrameIndex(frames) ==
  IF \E k \in 1..Len(frames) : ~frames[k].isOccupied
    THEN CHOOSE k \in 1..Len(frames) :
           /\ ~frames[k].isOccupied
           /\ \A j \in 1..(k-1) : frames[j].isOccupied
    ELSE 0

\* ramFrames.find(f => f.logicalPageId === id), as an index; 0 when none.
FindFrameIndexOfPage(frames, id) ==
  IF \E k \in 1..Len(frames) : frames[k].logicalPageId = id
    THEN CHOOSE k \in 1..Len(frames) :
           /\ frames[k].logicalPageId = id
           /\ \A j \in 1..(k-1) : frames[j].logicalPageId # id
    ELSE 0

\* ramFrames.find(f => f.frameId === frameId), as an index; 0 when none.
FindFrameIndexById(frames, frameId) ==
  IF \E k \in 1..Len(frames) : frames[k].frameId = frameId
    THEN CHOOSE k \in 1..Len(frames) :
           /\ frames[k].frameId = frameId
           /\ \A j \in 1..(k-1) : frames[j].frameId # frameId
    ELSE 0

\* ramFrames.filter(f => f.isOccupied)
OccupiedFrames(frames) == SelectSeq(frames, LAMBDA f : f.isOccupied)

\* getLogicalPageFromFrame: the index in mmu of the page the frame holds;
\* 0 stands for `undefined`.
GetLogicalPageFromFrame(frame, mmu) ==
  IF ~frame.isOccupied \/ frame.logicalPageId = NoPageId
    THEN 0
    ELSE FindPageIndex(mmu, frame.logicalPageId)

\* JavaScript `a < b` on numbers that may be undefined (NaN compares false).
JsLess(a, b) == a # UndefNum /\ b # UndefNum /\ a < b

\* ------------------------------------------------------------------------
\* Seeded generator (seedrandom): a reproducible stream per seeding key
\* ------------------------------------------------------------------------
KeyCode(ch) ==
  CASE ch = "s0" -> 0
    [] ch = "s1" -> 1
    [] ch = "FIFO" -> 2
    [] ch = "SC" -> 3
    [] ch = "MRU" -> 5
    [] ch = "RND" -> 7
    [] ch = "OPT" -> 11
    [] ch = "LRU" -> 13
    [] OTHER -> 17

\* seedrandom(seed + name): the generator seeded with the concatenation.
SeedRandom(seed, name) == [key |-> <<seed, name>>, calls |-> 0]

\* The numerator of the (calls+1)-th draw of the stream of `rng.key`: the
\* draw is a function of the key and the position only.  The streams of the
\* two seeds are offset so that their first draws, taken together, go
\* through every fraction n / RngDen.
RngDraw(rng) ==
  (KeyCode(rng.key[1]) * 27 + KeyCode(rng.key[2]) + rng.calls * 5) % RngDen

RngAdvance(rng) == [rng EXCEPT !.calls = @ + 1]

\* ------------------------------------------------------------------------
\* Replacement policies (algorithms.ts)
\* A decision carries outcome "ok", "throw" (the policy threw an Error) or
\* "diverge" (the policy's loop never ends), and the generator after the
\* policy's draws.
\* ------------------------------------------------------------------------
Decision(frame, ctx) ==
  [outcome |-> "ok",
   victimFrameId |-> frame.frameId,
   victimLogicalPageId |-> frame.logicalPageId,
   nextScHandPosition |-> UndefNum,
   pagesWhoseRBitShouldBeCleared |-> <<>>,
   rng |-> ctx.rng]

Throw(ctx) ==
  [outcome |-> "throw",
   victimFrameId |-> UndefNum,
   victimLogicalPageId |-> NoPageId,
   nextScHandPosition |-> UndefNum,
   pagesWhoseRBitShouldBeCleared |-> <<>>,
   rng |-> ctx.rng]

\* Faulty variant of the FIFO loop: `<=` instead of `<`, so that among frames
\* loaded at the same time the last one wins.
RECURSIVE FifoScanLastOldest(_, _, _)
FifoScanLastOldest(frames, k, oldest) ==
  IF k > Len(frames) THEN oldest
  ELSE IF frames[k].isOccupied
          /\ (oldest = 0
              \/ frames[k].loadedTimestamp <= frames[oldest].loadedTimestamp)
    THEN FifoScanLastOldest(frames, k + 1, k)
    ELSE FifoScanLastOldest(frames, k + 1, oldest)

\* --- FIFO: the for loop of fifoAlgorithm; oldest = 0 is `null`.
RECURSIVE FifoScan(_, _, _)
FifoScan(frames, k, oldest) ==
  IF k > Len(frames) THEN oldest
  ELSE IF frames[k].isOccupied
          /\ (oldest = 0
              \/ JsLess(frames[k].loadedTimestamp, frames[oldest].loadedTimestamp))
    THEN FifoScan(frames, k + 1, k)
    ELSE FifoScan(frames, k + 1, oldest)

FifoPick(context, oldest) ==
  IF oldest = 0 THEN Throw(context)
  ELSE Decision(context.ramFrames[oldest], context)

fifoAlgorithm(context) == FifoPick(context, FifoScan(context.ramFrames, 1, 0))

\* --- SC: the while(true) loop of scAlgorithm.  idle counts the consecutive
\* iterations that neither returned nor recorded a page: after a full sweep
\* of such iterations the loop is back in the same state and never ends.
\* Faulty variant of the fallback: the victim stays in the list of pages
\* whose R bit is to be cleared.
ScFallbackListsVictim(context, toClear) ==
  IF ~context.ramFrames[context.scHandPosition + 1].isOccupied
    THEN Throw(context)
    ELSE [Decision(context.ramFrames[context.scHandPosition + 1], context) EXCEPT
            !.nextScHandPosition =
               (context.scHandPosition + 1) % Len(context.ramFrames),
            !.pagesWhoseRBitShouldBeCleared = toClear]

ScFallback(context, toClear) ==
  IF ~context.ramFrames[context.scHandPosition + 1].isOccupied
    THEN Throw(context)
    ELSE [Decision(context.ramFrames[context.scHandPosition + 1], context) EXCEPT
            !.nextScHandPosition =
               (context.scHandPosition + 1) % Len(context.ramFrames),
            !.pagesWhoseRBitShouldBeCleared =
               SelectSeq(toClear,
                         LAMBDA id :
                           id # context.ramFrames[context.scHandPosition + 1].logicalPageId)]

RECURSIVE ScLoop(_, _, _, _)
\* After the if/else of one iteration that did not return: the fallback test
\* at the end of the loop body, then the next iteration.
ScAfterBody(context, nextHand, toClear, idle) ==
  IF Len(toClear) >= Len(OccupiedFrames(context.ramFrames))
     /\ Len(OccupiedFrames(context.ramFrames)) > 0
    THEN ScFallback(context, toClear)
  ELSE IF idle >= Len(context.ramFrames)
    THEN [Throw(context) EXCEPT !.outcome = "diverge"]
  ELSE ScLoop(context, nextHand, toClear, idle)

\* One iteration, lp being the logical page of the frame under the hand.
ScBody(context, currentHandPos, pagesToClearRBit, idle, lp) ==
  IF context.ramFrames[currentHandPos + 1].isOccupied /\ lp # 0
    THEN IF context.mmu[lp].referencedBit = "true"
           THEN ScAfterBody(context,
                            (currentHandPos + 1) % Len(context.ramFrames),
                            Append(pagesToClearRBit, context.mmu[lp].id), 0)
           ELSE [Decision(context.ramFrames[currentHandPos + 1], context) EXCEPT
                   !.nextScHandPosition =
                      (currentHandPos + 1) % Len(context.ramFrames),
                   !.pagesWhoseRBitShouldBeCleared = pagesToClearRBit]
    ELSE ScAfterBody(context, (currentHandPos + 1) % Len(context.ramFrames),
                     pagesToClearRBit, idle + 1)

ScLoop(context, currentHandPos, pagesToClearRBit, idle) ==
  ScBody(context, currentHandPos, pagesToClearRBit, idle,
         GetLogicalPageFromFrame(context.ramFrames[currentHandPos + 1], context.mmu))

scAlgorithm(context) == ScLoop(context, context.scHandPosition, <<>>, 0)

\* Faulty variant of the MRU loop body: the first occupied frame is kept,
\* whatever the access times of the later ones.
MruVisitFirstOccupied(frame, k, mmu, lp, acc) ==
  IF frame.isOccupied /\ lp # 0 /\ acc.frame = 0
    THEN [frame |-> k, time |-> mmu[lp].ramLastAccessTimestamp]
    ELSE acc

\* --- MRU: the for loop of mruAlgorithm; acc = [frame, time], frame 0 is null.
MruVisit(frame, k, mmu, lp, acc) ==
  IF frame.isOccupied /\ lp # 0 /\ mmu[lp].ramLastAccessTimestamp # UndefNum
    THEN IF mmu[lp].ramLastAccessTimestamp > acc.time
           THEN [frame |-> k, time |-> mmu[lp].ramLastAccessTimestamp]
           ELSE acc
  ELSE IF frame.isOccupied /\ lp # 0 /\ acc.frame = 0
    THEN [acc EXCEPT !.frame = k]
  ELSE acc

RECURSIVE MruScan(_, _, _, _)
MruScan(frames, mmu, k, acc) ==
  IF k > Len(frames) THEN acc.frame
  ELSE MruScan(frames, mmu, k + 1,
               MruVisit(frames[k], k, mmu,
                        GetLogicalPageFromFrame(frames[k], mmu), acc))

MruPick(context, mostRecent) ==
  IF mostRecent = 0 THEN Throw(context)
  ELSE Decision(context.ramFrames[mostRecent], context)

mruAlgorithm(context) ==
  MruPick(context, MruScan(context.ramFrames, context.mmu, 1,
                           [frame |-> 0, time |-> -1]))

\* Faulty variant: the draw is reduced modulo the number of occupied frames
\* instead of being scaled by it.
RndPickModulo(context, occupiedFrames) ==
  IF Len(occupiedFrames) = 0 THEN Throw(context)
  ELSE [Decision(occupiedFrames[(RngDraw(context.rng) % Len(occupiedFrames)) + 1],
                 context)
          EXCEPT !.rng = RngAdvance(context.rng)]

\* --- RND: Math.floor(context.rng() * occupiedFrames.length)
RndPick(context, occupiedFrames) ==
  IF Len(occupiedFrames) = 0 THEN Throw(context)
  ELSE [Decision(occupiedFrames[(RngDraw(context.rng) * Len(occupiedFrames))
                                  \div RngDen + 1], context)
          EXCEPT !.rng = RngAdvance(context.rng)]

\* Faulty variant: the index is drawn from a generator shared by the whole
\* page (Math.random), whose position depends on what every session has
\* done so far, instead of from context.rng.
rndAlgorithmUnseeded(context) ==
  IF Len(OccupiedFrames(context.ramFrames)) = 0 THEN Throw(context)
  ELSE Decision(
         OccupiedFrames(context.ramFrames)[
           (((2 * (currentOperationIndex + twin.currentOperationIndex)) % RngDen)
              * Len(OccupiedFrames(context.ramFrames))) \div RngDen + 1],
         context)

rndAlgorithm(context) == RndPick(context, OccupiedFrames(context.ramFrames))

\* --- OPT: distance to the next `use` of the page's ptrId, from the
\* current index on; Infinity when there is none.
RECURSIVE NextUseDistance(_, _, _, _)
NextUseDistance(futureOperations, currentOpIndex, i, ptrId) ==
  IF i >= Len(futureOperations) THEN Infinity
  ELSE IF futureOperations[i + 1].type = "use"
          /\ futureOperations[i + 1].ptrId = ptrId
    THEN i - currentOpIndex
    ELSE NextUseDistance(futureOperations, currentOpIndex, i + 1, ptrId)

\* Faulty variant of the comparison: `>=` instead of `>`, so that among
\* frames at the same distance the last one wins.
OptCompareLast(k, dist, acc) ==
  IF dist >= acc.dist THEN [frame |-> k, dist |-> dist] ELSE acc

OptCompare(k, dist, acc) ==
  IF dist > acc.dist THEN [frame |-> k, dist |-> dist] ELSE acc

OptVisit(context, k, lp, acc) ==
  IF lp = 0 THEN acc
  ELSE OptCompare(k,
                  NextUseDistance(context.futureOperations,
                                  context.currentOperationIndex,
                                  context.currentOperationIndex,
                                  context.mmu[lp].ptrId),
                  acc)

\* The for loop over occupiedFrames; acc = [frame, dist], frame 0 is null.
RECURSIVE OptScan(_, _, _, _)
OptScan(context, occupiedFrames, k, acc) ==
  IF k > Len(occupiedFrames) THEN acc.frame
  ELSE OptScan(context, occupiedFrames, k + 1,
               OptVisit(context, k,
                        GetLogicalPageFromFrame(occupiedFrames[k], context.mmu),
                        acc))

OptPick(context, occupiedFrames, found) ==
  Decision(occupiedFrames[IF found = 0 THEN 1 ELSE found], context)

OptOver(context, occupiedFrames) ==
  IF Len(occupiedFrames) = 0 THEN Throw(context)
  ELSE OptPick(context, occupiedFrames,
               OptScan(context, occupiedFrames, 1, [frame |-> 0, dist |-> -1]))

optAlgorithm(context) ==
  IF ~context.hasFuture THEN Throw(context)
  ELSE OptOver(context, OccupiedFrames(context.ramFrames))

\* pageReplacementAlgorithms[name]: the map has no entry for LRU, so the
\* lookup gives `undefined` there.
HasAlgorithm(name) == name \in {"FIFO", "SC", "MRU", "RND", "OPT"}

pageReplacementAlgorithms(name, context) ==
  CASE name = "FIFO" -> fifoAlgorithm(context)
    [] name = "SC" -> scAlgorithm(context)
    [] name = "MRU" -> mruAlgorithm(context)
    [] name = "RND" -> rndAlgorithm(context)
    [] name = "OPT" -> optAlgorithm(context)

\* ------------------------------------------------------------------------
\* Engine state (types.ts, getInitialAlgorithmSimulationState)
\* ------------------------------------------------------------------------
EmptyFrame(i) ==
  [frameId |-> i,
   isOccupied |-> FALSE,
   logicalPageId |-> NoPageId,
   pid |-> NoPid,
   loadedTimestamp |-> UndefNum,
   lastAccessTimestamp |-> UndefNum,
   referencedBit |-> "undefined"]

InitialMetrics(name) ==
  [algorithmName |-> name,
   pageFaults |-> 0,
   pageHits |-> 0,
   runningProcessesCount |-> 0,
   totalSimulationTime |-> 0,
   ramUsedKb |-> 0,
   ramUsedPercentage |-> <<0, TOTAL_RAM_KB>>,
   vRamUsedKb |-> 0,
   vRamUsedPercentageOfRam |-> <<0, TOTAL_RAM_KB>>,
   thrashingTime |-> 0,
   internalFragmentationKb |-> 0]

getInitialAlgorithmSimulationState(name, seed, initialPtrId) ==
  [algorithmName |-> name,
   ramFrames |-> [i \in 1..TOTAL_RAM_FRAMES |-> EmptyFrame(i - 1)],
   mmu |-> <<>>,
   metrics |-> InitialMetrics(name),
   scHandPosition |-> 0,
   nextPtrIdToAssign |-> initialPtrId,
   activePointers |-> <<>>,
   rng |-> SeedRandom(seed, name),
   thrown |-> FALSE]

\* The PageReplacementContext built at both call sites.
ReplacementContext(s, pageToLoad, allOpsForOpt, currentOpIdxForOpt) ==
  [ramFrames |-> s.ramFrames,
   mmu |-> s.mmu,
   pageToLoad |-> pageToLoad,
   hasFuture |-> s.algorithmName = "OPT",
   futureOperations |-> IF s.algorithmName = "OPT" THEN allOpsForOpt ELSE <<>>,
   currentOperationIndex |->
     IF s.algorithmName = "OPT" THEN currentOpIdxForOpt ELSE UndefNum,
   scHandPosition |-> s.scHandPosition,
   rng |-> s.rng]

\* Faulty variant: the victim is accounted for but its page record still
\* says it is resident in the frame.
EvictPageKeepsResident(s, vp) ==
  IF vp = 0 THEN s
  ELSE [s EXCEPT !.metrics.vRamUsedKb = @ + PAGE_SIZE_KB]

\* Faulty variant: the victim goes to disk without being added to vRamUsedKb.
EvictPageNoVRam(s, vp) ==
  IF vp = 0 THEN s
  ELSE [s EXCEPT
          !.mmu[vp].isLoadedInRam = FALSE,
          !.mmu[vp].frameId = UndefNum,
          !.mmu[vp].diskAddress = DiskAddress(s.mmu[vp].id)]

\* Mark the page at mmu index vp (0: the victim frame held no known page) as
\* swapped out.
EvictPage(s, vp) ==
  IF vp = 0 THEN s
  ELSE [s EXCEPT
          !.mmu[vp].isLoadedInRam = FALSE,
          !.mmu[vp].frameId = UndefNum,
          !.mmu[vp].diskAddress = DiskAddress(s.mmu[vp].id),
          !.metrics.vRamUsedKb = @ + PAGE_SIZE_KB]

\* Faulty variant: the page of the frame after the victim's is swapped out
\* with it.
EvictVictimAndNext(s, fi) ==
  EvictPage(EvictPage(s, IF s.ramFrames[fi].logicalPageId = NoPageId THEN 0
                         ELSE FindPageIndex(s.mmu, s.ramFrames[fi].logicalPageId)),
            IF s.ramFrames[(fi % Len(s.ramFrames)) + 1].logicalPageId = NoPageId THEN 0
            ELSE FindPageIndex(s.mmu,
                               s.ramFrames[(fi % Len(s.ramFrames)) + 1].logicalPageId))

\* if (victimFrame.logicalPageId) { mmu.find(...) ... } for frame index fi.
EvictVictim(s, fi) ==
  EvictPage(s, IF s.ramFrames[fi].logicalPageId = NoPageId THEN 0
               ELSE FindPageIndex(s.mmu, s.ramFrames[fi].logicalPageId))

\* The body of the forEach over pagesWhoseRBitShouldBeCleared, for the page
\* at mmu index pi held by frame index fi (0 when not found).
ClearRBit(s, pi, fi) ==
  IF pi # 0 /\ s.mmu[pi].isLoadedInRam
    THEN [s EXCEPT
            !.mmu[pi].referencedBit = "false",
            !.ramFrames = IF fi # 0
                            THEN [@ EXCEPT ![fi].referencedBit = "false"]
                            ELSE @]
    ELSE s

\* decision.pagesWhoseRBitShouldBeCleared.forEach(...)
RECURSIVE ClearRBits(_, _, _)
ClearRBits(s, ids, k) ==
  IF k > Len(ids) THEN s
  ELSE ClearRBits(ClearRBit(s, FindPageIndex(s.mmu, ids[k]),
                            FindFrameIndexOfPage(s.ramFrames, ids[k])),
                  ids, k + 1)

\* The SC post-decision handling (hand and R bits); nothing for the others.
ScCommit(s, decision) ==
  IF s.algorithmName = "SC"
    THEN ClearRBits([s EXCEPT !.scHandPosition = decision.nextScHandPosition],
                    decision.pagesWhoseRBitShouldBeCleared, 1)
    ELSE s

\* ------------------------------------------------------------------------
\* case 'new'
\* ------------------------------------------------------------------------
\* size % PAGE_SIZE_BYTES || PAGE_SIZE_BYTES for the last page.
ContentSize(size, i, numPagesNeeded) ==
  IF i = numPagesNeeded - 1
    THEN (IF size % PAGE_SIZE_BYTES # 0 THEN size % PAGE_SIZE_BYTES
          ELSE PAGE_SIZE_BYTES)
    ELSE PAGE_SIZE_BYTES

NewLogicalPage(s, op, i, numPagesNeeded) ==
  [id |-> LogicalPageId(op.ptrId, i, op.pid),
   pid |-> op.pid,
   ptrId |-> op.ptrId,
   pageIndexInPtr |-> i,
   isLoadedInRam |-> FALSE,
   frameId |-> UndefNum,
   diskAddress |-> DiskAddress(LogicalPageId(op.ptrId, i, op.pid)),
   ramLoadTimestamp |-> UndefNum,
   ramLastAccessTimestamp |-> UndefNum,
   referencedBit |-> IF s.algorithmName = "SC" THEN "false" ELSE "undefined",
   contentSizeBytes |-> ContentSize(op.size, i, numPagesNeeded)]

\* Faulty variant: the installed page keeps its disk address.
NewInstallKeepsDisk(s, pi, fi) ==
  [s EXCEPT
     !.mmu[pi].isLoadedInRam = TRUE,
     !.mmu[pi].frameId = s.ramFrames[fi].frameId,
     !.mmu[pi].ramLoadTimestamp = s.metrics.totalSimulationTime,
     !.mmu[pi].ramLastAccessTimestamp = s.metrics.totalSimulationTime,
     !.ramFrames[fi].isOccupied = TRUE,
     !.ramFrames[fi].logicalPageId = s.mmu[pi].id,
     !.ramFrames[fi].pid = s.mmu[pi].pid,
     !.ramFrames[fi].loadedTimestamp = s.metrics.totalSimulationTime,
     !.ramFrames[fi].lastAccessTimestamp = s.metrics.totalSimulationTime,
     !.ramFrames[fi].referencedBit = s.mmu[pi].referencedBit]

\* Install the page at mmu index pi (the page just pushed) in frame index fi,
\* stamping both with the current totalSimulationTime.
NewInstall(s, pi, fi) ==
  [s EXCEPT
     !.mmu[pi].isLoadedInRam = TRUE,
     !.mmu[pi].frameId = s.ramFrames[fi].frameId,
     !.mmu[pi].diskAddress = NoDisk,
     !.mmu[pi].ramLoadTimestamp = s.metrics.totalSimulationTime,
     !.mmu[pi].ramLastAccessTimestamp = s.metrics.totalSimulationTime,
     !.ramFrames[fi].isOccupied = TRUE,
     !.ramFrames[fi].logicalPageId = s.mmu[pi].id,
     !.ramFrames[fi].pid = s.mmu[pi].pid,
     !.ramFrames[fi].loadedTimestamp = s.metrics.totalSimulationTime,
     !.ramFrames[fi].lastAccessTimestamp = s.metrics.totalSimulationTime,
     !.ramFrames[fi].referencedBit = s.mmu[pi].referencedBit]

\* The metrics of the free-frame branch of `new`.
BookNewHit(s) ==
  [s EXCEPT
     !.metrics.pageHits = @ + 1,
     !.metrics.totalSimulationTime = @ + HIT_TIME,
     !.metrics.ramUsedKb = @ + PAGE_SIZE_KB,
     !.metrics.vRamUsedKb = @ - PAGE_SIZE_KB]

\* The free-frame branch of `new`: timestamps first, then the hit is booked.
NewIntoFreeFrame(s, pi, fi) == BookNewHit(NewInstall(s, pi, fi))

\* The metrics of the replacement branch of `new`: the new page is added to
\* ramUsedKb and nothing is taken off for the victim.
BookNewLoaded(s) ==
  [s EXCEPT
     !.metrics.ramUsedKb = @ + PAGE_SIZE_KB,
     !.metrics.vRamUsedKb = @ - PAGE_SIZE_KB]

\* The replacement branch of `new` after the fault has been booked.
NewByReplacement(s, pi, decision) ==
  ScCommit(
    BookNewLoaded(
      NewInstall(EvictVictim([s EXCEPT !.rng = decision.rng],
                             decision.victimFrameId + 1),
                 pi, decision.victimFrameId + 1)),
    decision)

\* Faulty variant: a fault is charged the time of a hit.
BookFaultAsHit(s) ==
  [s EXCEPT
     !.metrics.pageFaults = @ + 1,
     !.metrics.totalSimulationTime = @ + HIT_TIME,
     !.metrics.thrashingTime = @ + FAULT_TIME]

\* Faulty variant: a fault is not added to thrashingTime.
BookFaultNoThrashing(s) ==
  [s EXCEPT
     !.metrics.pageFaults = @ + 1,
     !.metrics.totalSimulationTime = @ + FAULT_TIME]

\* if (!freeFrame) { pageFaults++; totalSimulationTime += FAULT_TIME; ... }
BookFault(s) ==
  [s EXCEPT
     !.metrics.pageFaults = @ + 1,
     !.metrics.totalSimulationTime = @ + FAULT_TIME,
     !.metrics.thrashingTime = @ + FAULT_TIME]

\* Results of one loop iteration: [s, brk] where brk says that the loop was
\* left by `break` (no algorithm) or by an exception (s.thrown).
Continue(s) == [s |-> s, brk |-> FALSE]
Break(s) == [s |-> s, brk |-> TRUE]

\* `new`, RAM full, after algoFn returned (or threw, or never returned).
NewDecided(faulted, decision) ==
  IF decision.outcome # "ok"
    THEN Break([faulted EXCEPT !.thrown = TRUE])
    ELSE Continue(NewByReplacement(faulted, Len(faulted.mmu), decision))

\* `new`, RAM full, after the fault has been booked.
NewFaulted(faulted, allOps, idx) ==
  IF ~HasAlgorithm(faulted.algorithmName)
    THEN Break(faulted)
    ELSE NewDecided(faulted,
                    pageReplacementAlgorithms(
                      faulted.algorithmName,
                      ReplacementContext(faulted, faulted.mmu[Len(faulted.mmu)],
                                         allOps, idx)))

\* `new` after the page has been pushed; fi is the free frame found (0: none).
NewPlace(pushed, fi, allOps, idx) ==
  IF fi # 0
    THEN Continue(NewIntoFreeFrame(pushed, Len(pushed.mmu), fi))
    ELSE NewFaulted(BookFault(pushed), allOps, idx)

NewPush(s, newPage) ==
  [s EXCEPT
     !.mmu = Append(@, newPage),
     !.metrics.vRamUsedKb = @ + PAGE_SIZE_KB]

NewPushed(pushed, allOps, idx) ==
  NewPlace(pushed, FindFreeFrameIndex(pushed.ramFrames), allOps, idx)

\* One iteration of the for loop of `new`.
NewPageStep(s, op, i, numPagesNeeded, allOps, idx) ==
  NewPushed(NewPush(s, NewLogicalPage(s, op, i, numPagesNeeded)), allOps, idx)

\* The for loop of `new`; ids is newLogicalPageIds.
RECURSIVE NewLoop(_, _, _, _, _, _, _)
NewLoopNext(r, op, i, numPagesNeeded, ids, allOps, idx) ==
  IF r.brk THEN [s |-> r.s, ids |-> ids]
  ELSE NewLoop(r.s, op, i + 1, numPagesNeeded, ids, allOps, idx)

NewLoop(s, op, i, numPagesNeeded, ids, allOps, idx) ==
  IF i >= numPagesNeeded THEN [s |-> s, ids |-> ids]
  ELSE NewLoopNext(NewPageStep(s, op, i, numPagesNeeded, allOps, idx),
                   op, i, numPagesNeeded,
                   Append(ids, LogicalPageId(op.ptrId, i, op.pid)),
                   allOps, idx)

\* activePointers.set(key, value)
MapSet(m, key, value) ==
  [k \in (DOMAIN m) \cup {key} |-> IF k = key THEN value ELSE m[k]]

\* activePointers.delete(key)
MapDelete(m, key) == [k \in (DOMAIN m) \ {key} |-> m[k]]

\* The two statements after the for loop of `new`.
RegisterPointer(r, op) ==
  IF r.s.thrown THEN r.s
  ELSE [r.s EXCEPT
          !.activePointers = MapSet(@, op.ptrId, [pid |-> op.pid, pageIds |-> r.ids]),
          !.nextPtrIdToAssign = Max(@, op.ptrId + 1)]

HandleNew(s, op, allOps, idx) ==
  RegisterPointer(NewLoop(s, op, 0, CeilDiv(op.size, PAGE_SIZE_BYTES), <<>>,
                          allOps, idx),
                  op)

\* Faulty variant: the frame of a page brought in by `use` gets the time of
\* the load as its last access, not the page's last access.
UseInstallStampsFrameNow(s, pi, fi) ==
  [s EXCEPT
     !.mmu[pi].isLoadedInRam = TRUE,
     !.mmu[pi].frameId = s.ramFrames[fi].frameId,
     !.mmu[pi].diskAddress = NoDisk,
     !.mmu[pi].ramLoadTimestamp = s.metrics.totalSimulationTime,
     !.ramFrames[fi].isOccupied = TRUE,
     !.ramFrames[fi].logicalPageId = s.mmu[pi].id,
     !.ramFrames[fi].pid = s.mmu[pi].pid,
     !.ramFrames[fi].loadedTimestamp = s.metrics.totalSimulationTime,
     !.ramFrames[fi].lastAccessTimestamp = s.metrics.totalSimulationTime,
     !.ramFrames[fi].referencedBit = s.mmu[pi].referencedBit]

\* ------------------------------------------------------------------------
\* case 'use'
\* ------------------------------------------------------------------------
\* Load the used page (mmu index pi) into frame index fi: the load stamp is
\* the current totalSimulationTime, the frame's access stamp the page's.
UseInstall(s, pi, fi) ==
  [s EXCEPT
     !.mmu[pi].isLoadedInRam = TRUE,
     !.mmu[pi].frameId = s.ramFrames[fi].frameId,
     !.mmu[pi].diskAddress = NoDisk,
     !.mmu[pi].ramLoadTimestamp = s.metrics.totalSimulationTime,
     !.ramFrames[fi].isOccupied = TRUE,
     !.ramFrames[fi].logicalPageId = s.mmu[pi].id,
     !.ramFrames[fi].pid = s.mmu[pi].pid,
     !.ramFrames[fi].loadedTimestamp = s.metrics.totalSimulationTime,
     !.ramFrames[fi].lastAccessTimestamp = s.mmu[pi].ramLastAccessTimestamp,
     !.ramFrames[fi].referencedBit = s.mmu[pi].referencedBit]

\* Faulty variant: a hit of `use` is not counted.
UseHitUncounted(s, fi) ==
  [s EXCEPT
     !.ramFrames[fi].lastAccessTimestamp = s.metrics.totalSimulationTime,
     !.ramFrames[fi].referencedBit =
        IF s.algorithmName = "SC" THEN "true" ELSE @,
     !.metrics.totalSimulationTime = @ + HIT_TIME]

\* The page hit branch of `use`, on frame index fi.
UseHit(s, fi) ==
  [s EXCEPT
     !.ramFrames[fi].lastAccessTimestamp = s.metrics.totalSimulationTime,
     !.ramFrames[fi].referencedBit =
        IF s.algorithmName = "SC" THEN "true" ELSE @,
     !.metrics.pageHits = @ + 1,
     !.metrics.totalSimulationTime = @ + HIT_TIME]

BookUseLoadedFree(s) ==
  [s EXCEPT
     !.metrics.ramUsedKb = @ + PAGE_SIZE_KB,
     !.metrics.vRamUsedKb = @ - PAGE_SIZE_KB]

BookUseLoadedReplaced(s) ==
  [s EXCEPT !.metrics.vRamUsedKb = @ - PAGE_SIZE_KB]

\* The fault branch of `use` when a frame is free.
UseIntoFreeFrame(s, pi, fi) == BookUseLoadedFree(UseInstall(s, pi, fi))

\* The fault branch of `use` when RAM is full.
UseByReplacement(s, pi, decision) ==
  BookUseLoadedReplaced(
    UseInstall(
      ScCommit(EvictVictim([s EXCEPT !.rng = decision.rng],
                           decision.victimFrameId + 1),
               decision),
      pi, decision.victimFrameId + 1))

\* `use`, RAM full, after algoFn returned (or threw, or never returned).
UseDecided(faulted, pi, decision) ==
  IF decision.outcome # "ok"
    THEN Break([faulted EXCEPT !.thrown = TRUE])
    ELSE Continue(UseByReplacement(faulted, pi, decision))

\* Faulty variant: the policy is asked for a victim as soon as a frame is
\* occupied, free frames or not.
UseFaultedAsksPolicy(faulted, pi, freeFrame, allOps, idx) ==
  IF OccupiedFrames(faulted.ramFrames) = <<>>
    THEN Continue(UseIntoFreeFrame(faulted, pi, freeFrame))
  ELSE IF ~HasAlgorithm(faulted.algorithmName)
    THEN Break(faulted)
  ELSE UseDecided(faulted, pi,
                  pageReplacementAlgorithms(
                    faulted.algorithmName,
                    ReplacementContext(faulted, faulted.mmu[pi], allOps, idx)))

\* `use`, page fault booked; freeFrame is the free frame found (0: none).
UseFaulted(faulted, pi, freeFrame, allOps, idx) ==
  IF freeFrame # 0
    THEN Continue(UseIntoFreeFrame(faulted, pi, freeFrame))
  ELSE IF ~HasAlgorithm(faulted.algorithmName)
    THEN Break(faulted)
  ELSE UseDecided(faulted, pi,
                  pageReplacementAlgorithms(
                    faulted.algorithmName,
                    ReplacementContext(faulted, faulted.mmu[pi], allOps, idx)))

\* `use` after the page has been stamped; frameInRam is the frame holding
\* it (0: null).
UseAccess(touched, pi, frameInRam, allOps, idx) ==
  IF frameInRam # 0
    THEN Continue(UseHit(touched, frameInRam))
    ELSE UseFaulted(BookFault(touched), pi,
                    FindFreeFrameIndex(touched.ramFrames), allOps, idx)

\* page.ramLastAccessTimestamp = ...; if SC, page.referencedBit = true
Touch(s, pi) ==
  [s EXCEPT
     !.mmu[pi].ramLastAccessTimestamp = s.metrics.totalSimulationTime,
     !.mmu[pi].referencedBit = IF s.algorithmName = "SC" THEN "true" ELSE @]

UseFound(s, pi, allOps, idx) ==
  IF pi = 0 THEN Continue(s)
  ELSE UseAccess(Touch(s, pi), pi,
                 IF s.mmu[pi].isLoadedInRam
                   THEN FindFrameIndexById(s.ramFrames, s.mmu[pi].frameId)
                   ELSE 0,
                 allOps, idx)

\* One iteration of the for..of loop of `use` over pointerInfo.pageIds.
UsePageStep(s, logicalPageId, allOps, idx) ==
  UseFound(s, FindPageIndex(s.mmu, logicalPageId), allOps, idx)

RECURSIVE UseLoop(_, _, _, _, _)
UseLoopNext(r, pageIds, k, allOps, idx) ==
  IF r.brk THEN r.s ELSE UseLoop(r.s, pageIds, k + 1, allOps, idx)

UseLoop(s, pageIds, k, allOps, idx) ==
  IF k > Len(pageIds) THEN s
  ELSE UseLoopNext(UsePageStep(s, pageIds[k], allOps, idx),
                   pageIds, k, allOps, idx)

\* Faulty variant: a use of an unknown pointer is booked as a page fault.
HandleUseUnknownFaults(s, op, allOps, idx) ==
  IF op.ptrId \notin DOMAIN s.activePointers THEN BookFault(s)
  ELSE UseLoop(s, s.activePointers[op.ptrId].pageIds, 1, allOps, idx)

HandleUse(s, op, allOps, idx) ==
  IF op.ptrId \notin DOMAIN s.activePointers THEN s
  ELSE UseLoop(s, s.activePointers[op.ptrId].pageIds, 1, allOps, idx)

\* ------------------------------------------------------------------------
\* case 'delete' and case 'kill'
\* ------------------------------------------------------------------------
\* mmu.splice(pageIndex, 1)
Splice(seq, k) == SubSeq(seq, 1, k - 1) \o SubSeq(seq, k + 1, Len(seq))

\* Faulty variant of the frame reset of `delete`: the frame is emptied but
\* still counts as occupied.
DeleteFreeFrameStaysOccupied(s, fi) ==
  [s EXCEPT
     !.ramFrames[fi].logicalPageId = NoPageId,
     !.ramFrames[fi].pid = NoPid,
     !.ramFrames[fi].loadedTimestamp = UndefNum,
     !.ramFrames[fi].lastAccessTimestamp = UndefNum,
     !.ramFrames[fi].referencedBit = "undefined",
     !.metrics.ramUsedKb = @ - PAGE_SIZE_KB]

\* The frame reset of `delete`: every per-frame field is cleared.
DeleteFreeFrame(s, fi) ==
  [s EXCEPT
     !.ramFrames[fi].isOccupied = FALSE,
     !.ramFrames[fi].logicalPageId = NoPageId,
     !.ramFrames[fi].pid = NoPid,
     !.ramFrames[fi].loadedTimestamp = UndefNum,
     !.ramFrames[fi].lastAccessTimestamp = UndefNum,
     !.ramFrames[fi].referencedBit = "undefined",
     !.metrics.ramUsedKb = @ - PAGE_SIZE_KB]

\* The frame reset of `kill`: the timestamps and the R bit are left as is.
KillFreeFrame(s, fi) ==
  [s EXCEPT
     !.ramFrames[fi].isOccupied = FALSE,
     !.ramFrames[fi].logicalPageId = NoPageId,
     !.ramFrames[fi].pid = NoPid,
     !.metrics.ramUsedKb = @ - PAGE_SIZE_KB]

\* Faulty variant: releasing a resident page moves the SC hand on and is
\* charged the time of a hit.
ReleasePageCharged(s, pageIndex, byKill) ==
  IF s.mmu[pageIndex].isLoadedInRam /\ s.mmu[pageIndex].frameId # UndefNum
    THEN [(IF byKill THEN KillFreeFrame(s, s.mmu[pageIndex].frameId + 1)
           ELSE DeleteFreeFrame(s, s.mmu[pageIndex].frameId + 1))
            EXCEPT !.metrics.totalSimulationTime = @ + HIT_TIME,
                   !.scHandPosition = (@ + 1) % TOTAL_RAM_FRAMES]
    ELSE [s EXCEPT !.metrics.vRamUsedKb = @ - PAGE_SIZE_KB]

\* The if/else on the page at mmu index pageIndex, before the splice.
ReleasePage(s, pageIndex, byKill) ==
  IF s.mmu[pageIndex].isLoadedInRam /\ s.mmu[pageIndex].frameId # UndefNum
    THEN (IF byKill THEN KillFreeFrame(s, s.mmu[pageIndex].frameId + 1)
          ELSE DeleteFreeFrame(s, s.mmu[pageIndex].frameId + 1))
    ELSE [s EXCEPT !.metrics.vRamUsedKb = @ - PAGE_SIZE_KB]

SplicePage(s, pageIndex) == [s EXCEPT !.mmu = Splice(@, pageIndex)]

RemovePageAt(s, pageIndex, byKill) ==
  IF pageIndex = 0 THEN s
  ELSE SplicePage(ReleasePage(s, pageIndex, byKill), pageIndex)

\* The body of the page loop shared by `delete` (byKill FALSE) and `kill`.
RemovePage(s, logicalPageId, byKill) ==
  RemovePageAt(s, FindPageIndex(s.mmu, logicalPageId), byKill)

RECURSIVE RemovePages(_, _, _, _)
RemovePages(s, pageIds, k, byKill) ==
  IF k > Len(pageIds) THEN s
  ELSE RemovePages(RemovePage(s, pageIds[k], byKill), pageIds, k + 1, byKill)

ForgetPointer(s, ptrId) == [s EXCEPT !.activePointers = MapDelete(@, ptrId)]

\* Faulty variant: a delete of an unknown pointer is charged the time of a
\* hit instead of being skipped.
HandleDeleteCharged(s, op) ==
  IF op.ptrId \notin DOMAIN s.activePointers
    THEN [s EXCEPT !.metrics.totalSimulationTime = @ + HIT_TIME]
  ELSE ForgetPointer(RemovePages(s, s.activePointers[op.ptrId].pageIds, 1, FALSE),
                     op.ptrId)

HandleDelete(s, op) ==
  IF op.ptrId \notin DOMAIN s.activePointers THEN s
  ELSE ForgetPointer(RemovePages(s, s.activePointers[op.ptrId].pageIds, 1, FALSE),
                     op.ptrId)

\* The smallest element of a non-empty set of numbers.
Least(S) == CHOOSE x \in S : \A y \in S : x <= y

\* The ptrIds of a pid, in the Map's insertion order (ascending ptrId, as
\* the instruction streams number their `new`s upwards).
RECURSIVE SortedSeq(_)
SortedSeq(S) ==
  IF S = {} THEN <<>>
  ELSE <<Least(S)>> \o SortedSeq(S \ {Least(S)})

\* Faulty variant: only the oldest pointer of the pid is collected.
PtrIdsToKillFirst(s, pid) ==
  IF \A p \in DOMAIN s.activePointers : s.activePointers[p].pid # pid
    THEN <<>>
    ELSE <<Least({p \in DOMAIN s.activePointers : s.activePointers[p].pid = pid})>>

\* Faulty variant: the pid filter is missing, every pointer is collected.
PtrIdsToKillAll(s, pid) == SortedSeq(DOMAIN s.activePointers)

PtrIdsToKill(s, pid) ==
  SortedSeq({p \in DOMAIN s.activePointers : s.activePointers[p].pid = pid})

RECURSIVE KillLoop(_, _, _)
KillLoop(s, ptrIds, k) ==
  IF k > Len(ptrIds) THEN s
  ELSE IF ptrIds[k] \notin DOMAIN s.activePointers
    THEN KillLoop(s, ptrIds, k + 1)
  ELSE KillLoop(ForgetPointer(RemovePages(s, s.activePointers[ptrIds[k]].pageIds,
                                          1, TRUE),
                              ptrIds[k]),
                ptrIds, k + 1)

HandleKill(s, op) == KillLoop(s, PtrIdsToKill(s, op.pid), 1)

\* ------------------------------------------------------------------------
\* Common metrics, recomputed at the end of every step
\* ------------------------------------------------------------------------
\* PAGE_SIZE_BYTES - contentSizeBytes of the page at mmu index lp (0: none).
WastedBytes(s, lp) ==
  IF lp # 0 THEN PAGE_SIZE_BYTES - s.mmu[lp].contentSizeBytes ELSE 0

\* Faulty variant: the waste of every page of the MMU is summed, resident
\* or not.
RECURSIVE FragmentationOverMmu(_, _)
FragmentationOverMmu(s, k) ==
  IF k > Len(s.mmu) THEN 0
  ELSE (PAGE_SIZE_BYTES - s.mmu[k].contentSizeBytes)
       + FragmentationOverMmu(s, k + 1)

RECURSIVE FragmentationScan(_, _)
FragmentationScan(s, k) ==
  IF k > Len(s.ramFrames) THEN 0
  ELSE WastedBytes(s, GetLogicalPageFromFrame(s.ramFrames[k], s.mmu))
       + FragmentationScan(s, k + 1)

RunningPids(s) == {s.activePointers[p].pid : p \in DOMAIN s.activePointers}

UpdateCommonMetrics(s) ==
  [s EXCEPT
     !.metrics.runningProcessesCount = Cardinality(RunningPids(s)),
     !.metrics.ramUsedPercentage = <<s.metrics.ramUsedKb * 100, TOTAL_RAM_KB>>,
     !.metrics.vRamUsedPercentageOfRam =
        IF s.metrics.vRamUsedKb > 0
          THEN <<s.metrics.vRamUsedKb * 100, TOTAL_RAM_KB>>
          ELSE <<0, TOTAL_RAM_KB>>,
     !.metrics.internalFragmentationKb = FragmentationScan(s, 1)]

\* ------------------------------------------------------------------------
\* processAlgorithmStep
\* ------------------------------------------------------------------------
HandleOperation(s, op, allOps, idx) ==
  CASE op.type = "new" -> HandleNew(s, op, allOps, idx)
    [] op.type = "use" -> HandleUse(s, op, allOps, idx)
    [] op.type = "delete" -> HandleDelete(s, op)
    [] op.type = "kill" -> HandleKill(s, op)

\* An exception of a policy leaves the updater without a new state: the
\* engine keeps its state and is marked thrown.
FinishStep(currentSimState, newState) ==
  IF newState.thrown THEN [currentSimState EXCEPT !.thrown = TRUE]
  ELSE UpdateCommonMetrics(newState)

processAlgorithmStep(currentSimState, operation, allOpsForOpt, currentOpIdxForOpt) ==
  IF currentSimState.thrown THEN currentSimState
  ELSE FinishStep(currentSimState,
                  HandleOperation(currentSimState, operation, allOpsForOpt,
                                  currentOpIdxForOpt))

\* ------------------------------------------------------------------------
\* Instruction streams (SetupScreen.tsx): generated or parsed streams number
\* their `new`s 1, 2, 3, ... in order of appearance; use/delete carry the
\* pid of the `new` that introduced their ptrId ('' when there is none).
\* ------------------------------------------------------------------------
RawNew(pid, size) == [type |-> "new", pid |-> pid, size |-> size]
RawUse(ptrId) == [type |-> "use", ptrId |-> ptrId]
RawDelete(ptrId) == [type |-> "delete", ptrId |-> ptrId]
RawKill(pid) == [type |-> "kill", pid |-> pid]

\* The lines the streams of the model are made of: allocations of 4 pages
\* (more than the frames of the small RAM, last page partly filled), of 1
\* full page and of 0 pages by two processes, and use/delete/kill lines.
RawInstructions ==
  { RawNew("P1", 13000), RawNew("P2", 4096), RawNew("P2", 0),
    RawUse(1), RawUse(2), RawDelete(1),
    RawKill("P1"), RawKill("P2") }

Instruction(type, pid, size, ptrId) ==
  [type |-> type, pid |-> pid, size |-> size, ptrId |-> ptrId]

RECURSIVE NumberStream(_, _, _, _)
NumberStream(raw, k, currentGlobalPtrId, ptrIdToPidMap) ==
  IF k > Len(raw) THEN [ops |-> <<>>, nextPtrId |-> currentGlobalPtrId]
  ELSE IF raw[k].type = "unrecognised"
    THEN NumberStream(raw, k + 1, currentGlobalPtrId, ptrIdToPidMap)
  ELSE LET line == raw[k]
           isNew == line.type = "new"
           op == CASE line.type = "new" ->
                        Instruction("new", line.pid, line.size, currentGlobalPtrId)
                   [] line.type = "kill" ->
                        Instruction("kill", line.pid, UndefNum, UndefNum)
                   [] OTHER ->
                        Instruction(line.type,
                                    IF line.ptrId \in DOMAIN ptrIdToPidMap
                                      THEN ptrIdToPidMap[line.ptrId] ELSE "",
                                    UndefNum, line.ptrId)
           rest == NumberStream(raw, k + 1,
                                IF isNew THEN currentGlobalPtrId + 1
                                ELSE currentGlobalPtrId,
                                IF isNew
                                  THEN [q \in (DOMAIN ptrIdToPidMap) \cup {currentGlobalPtrId}
                                          |-> IF q = currentGlobalPtrId THEN line.pid
                                              ELSE ptrIdToPidMap[q]]
                                  ELSE ptrIdToPidMap)
       IN [ops |-> <<op>> \o rest.ops, nextPtrId |-> rest.nextPtrId]

\* ------------------------------------------------------------------------
\* The text of an operations file (SetupScreen.tsx)
\* A line reads head(arg,...,arg), possibly with blanks around it; the line
\* with empty head and no argument is the empty text.  An argument is a run
\* of digits, a word (letters, digits and underscores, not all digits) or
\* any other text.
\* ------------------------------------------------------------------------
Digits(n) == [kind |-> "digits", text |-> ToString(n), value |-> n]
Word(w) == [kind |-> "word", text |-> w, value |-> UndefNum]
Other(t) == [kind |-> "other", text |-> t, value |-> UndefNum]

Line(head, args, padded) == [head |-> head, args |-> args, padded |-> padded]

\* line.trim() === ''
IsBlank(line) == line.head = "" /\ line.args = <<>>

\* The /i flag of the four patterns.
LowerCase(head) ==
  CASE head \in {"NEW", "New"} -> "new"
    [] head \in {"USE", "Use"} -> "use"
    [] head \in {"DELETE", "Delete"} -> "delete"
    [] head \in {"KILL", "Kill"} -> "kill"
    [] OTHER -> head

\* (\w+) and (\d+)
MatchesWord(arg) == arg.kind \in {"word", "digits"}
MatchesDigits(arg) == arg.kind = "digits"

\* Faulty variant: the patterns are matched without the /i flag.
MatchLineCaseSensitive(line) ==
  IF line.head = "new" /\ Len(line.args) = 2
     /\ MatchesWord(line.args[1]) /\ MatchesDigits(line.args[2])
    THEN RawNew(line.args[1].text, line.args[2].value)
  ELSE IF line.head = "use" /\ Len(line.args) = 1
          /\ MatchesDigits(line.args[1])
    THEN RawUse(line.args[1].value)
  ELSE IF line.head = "delete" /\ Len(line.args) = 1
          /\ MatchesDigits(line.args[1])
    THEN RawDelete(line.args[1].value)
  ELSE IF line.head = "kill" /\ Len(line.args) = 1
          /\ MatchesWord(line.args[1])
    THEN RawKill(line.args[1].text)
  ELSE [type |-> "unrecognised"]

\* The body of lines.forEach up to the push: the trimmed line against
\* matchNew, matchUse, matchDel, matchKill, in that order.
MatchLine(line) ==
  IF LowerCase(line.head) = "new" /\ Len(line.args) = 2
     /\ MatchesWord(line.args[1]) /\ MatchesDigits(line.args[2])
    THEN RawNew(line.args[1].text, line.args[2].value)
  ELSE IF LowerCase(line.head) = "use" /\ Len(line.args) = 1
          /\ MatchesDigits(line.args[1])
    THEN RawUse(line.args[1].value)
  ELSE IF LowerCase(line.head) = "delete" /\ Len(line.args) = 1
          /\ MatchesDigits(line.args[1])
    THEN RawDelete(line.args[1].value)
  ELSE IF LowerCase(line.head) = "kill" /\ Len(line.args) = 1
          /\ MatchesWord(line.args[1])
    THEN RawKill(line.args[1].text)
  ELSE [type |-> "unrecognised"]

MatchLines(lines) == [k \in 1..Len(lines) |-> MatchLine(lines[k])]

\* csvContent.split(/\r?\n/).filter(line => line.trim() !== '')
NonBlankLines(csvContent) == SelectSeq(csvContent, LAMBDA line : ~IsBlank(line))

parseCsvToOperations(csvContent) ==
  NumberStream(MatchLines(NonBlankLines(csvContent)), 1, 1, <<>>)

\* Faulty variant: use and delete are written with their pid.
CsvLineWithPid(op) ==
  CASE op.type = "new" -> Line("new", <<Word(op.pid), Digits(op.size)>>, FALSE)
    [] op.type = "use" -> Line("use", <<Word(op.pid), Digits(op.ptrId)>>, FALSE)
    [] op.type = "delete" -> Line("delete", <<Word(op.pid), Digits(op.ptrId)>>, FALSE)
    [] op.type = "kill" -> Line("kill", <<Word(op.pid)>>, FALSE)

\* One line of operationsToCsv: the ptrId of a `new` is not written.
CsvLine(op) ==
  CASE op.type = "new" -> Line("new", <<Word(op.pid), Digits(op.size)>>, FALSE)
    [] op.type = "use" -> Line("use", <<Digits(op.ptrId)>>, FALSE)
    [] op.type = "delete" -> Line("delete", <<Digits(op.ptrId)>>, FALSE)
    [] op.type = "kill" -> Line("kill", <<Word(op.pid)>>, FALSE)

\* operations.map(...).join('\n'): the text of no operation is the empty text.
operationsToCsv(ops) ==
  IF ops = <<>> THEN <<Line("", <<>>, FALSE)>>
  ELSE [k \in 1..Len(ops) |-> CsvLine(ops[k])]

\* ------------------------------------------------------------------------
\* The driver (SimulationScreen component)
\* ------------------------------------------------------------------------
\* No policy is called outside the engines of a session.
NoPolicyCall == [name |-> "none"]

\* The setup screen has handed the instructions over to the simulation.
NoSetup == [phase |-> "started"]

NewSession(seed, alg, nextPtrId) ==
  [optSimState |-> getInitialAlgorithmSimulationState("OPT", seed, nextPtrId),
   selectedAlgoSimState |-> getInitialAlgorithmSimulationState(alg, seed, nextPtrId),
   currentOperationIndex |-> 0]

\* The useState initialisers.  Only RND reads its generator, so the other
\* policies are run under one seed.
Init ==
  /\ \E seed \in Seeds, alg \in SelectableAlgorithms :
        /\ alg # "RND" => seed = "s0"
        /\ params = [seed |-> seed, selectedAlgorithm |-> alg]
  /\ \E raw \in [1..MaxOps -> RawInstructions] :
        LET numbered == NumberStream(raw, 1, 1, <<>>)
        IN /\ operations = numbered.ops
           /\ initialNextPtrId = numbered.nextPtrId
  /\ optSimState =
       getInitialAlgorithmSimulationState("OPT", params.seed, initialNextPtrId)
  /\ selectedAlgoSimState =
       getInitialAlgorithmSimulationState(params.selectedAlgorithm, params.seed,
                                          initialNextPtrId)
  /\ isPaused = TRUE
  /\ currentOperationIndex = 0
  /\ twin = NewSession(params.seed, params.selectedAlgorithm, initialNextPtrId)
  /\ policyCall = NoPolicyCall
  /\ setupScreen = NoSetup

\* Faulty variant: the step is applied to the engine of the chosen policy
\* only.
runSimulationStepSkipsOpt ==
  IF currentOperationIndex >= Len(operations)
    THEN /\ isPaused' = TRUE
         /\ UNCHANGED <<params, operations, initialNextPtrId, optSimState,
                        selectedAlgoSimState, currentOperationIndex, twin, policyCall, setupScreen>>
    ELSE /\ selectedAlgoSimState' =
              processAlgorithmStep(selectedAlgoSimState,
                                   operations[currentOperationIndex + 1],
                                   operations, currentOperationIndex)
         /\ currentOperationIndex' = currentOperationIndex + 1
         /\ UNCHANGED <<params, operations, initialNextPtrId, optSimState,
                        isPaused, twin, policyCall, setupScreen>>

\* runSimulationStep
runSimulationStep ==
  IF currentOperationIndex >= Len(operations)
    THEN /\ isPaused' = TRUE
         /\ UNCHANGED <<params, operations, initialNextPtrId, optSimState,
                        selectedAlgoSimState, currentOperationIndex, twin, policyCall, setupScreen>>
    ELSE LET currentOp == operations[currentOperationIndex + 1]
         IN /\ optSimState' = processAlgorithmStep(optSimState, currentOp,
                                                   operations, currentOperationIndex)
            /\ selectedAlgoSimState' =
                 processAlgorithmStep(selectedAlgoSimState, currentOp,
                                      operations, currentOperationIndex)
            /\ currentOperationIndex' = currentOperationIndex + 1
            /\ UNCHANGED <<params, operations, initialNextPtrId, isPaused, twin, policyCall, setupScreen>>

\* The playback effect: the timer calls runSimulationStep while the
\* simulation is running and instructions remain.
TimerFires ==
  /\ ~isPaused
  /\ currentOperationIndex < Len(operations)
  /\ runSimulationStep

\* The play/pause button (disabled once the stream is exhausted).
TogglePause ==
  /\ currentOperationIndex < Len(operations)
  /\ isPaused' = ~isPaused
  /\ UNCHANGED <<params, operations, initialNextPtrId, optSimState,
                 selectedAlgoSimState, currentOperationIndex, twin, policyCall, setupScreen>>

\* Faulty variant: the engine of the chosen policy keeps its generator.
ResetSessionKeepsRng ==
  /\ currentOperationIndex' = 0
  /\ optSimState' =
       getInitialAlgorithmSimulationState("OPT", params.seed, initialNextPtrId)
  /\ selectedAlgoSimState' =
       [getInitialAlgorithmSimulationState(params.selectedAlgorithm, params.seed,
                                           initialNextPtrId)
          EXCEPT !.rng = selectedAlgoSimState.rng]
  /\ isPaused' = TRUE

\* The four setters of handleResetSimulation.
ResetSession ==
  /\ currentOperationIndex' = 0
  /\ optSimState' =
       getInitialAlgorithmSimulationState("OPT", params.seed, initialNextPtrId)
  /\ selectedAlgoSimState' =
       getInitialAlgorithmSimulationState(params.selectedAlgorithm, params.seed,
                                          initialNextPtrId)
  /\ isPaused' = TRUE

handleResetSimulation ==
  /\ ResetSession
  /\ UNCHANGED <<params, operations, initialNextPtrId, twin, policyCall, setupScreen>>

\* handleResetSimulation with the run it ends set aside in `twin`, to be
\* compared with the run that follows.
ReplayReset ==
  /\ ResetSession
  /\ twin' = [optSimState |-> optSimState,
              selectedAlgoSimState |-> selectedAlgoSimState,
              currentOperationIndex |-> currentOperationIndex]
  /\ UNCHANGED <<params, operations, initialNextPtrId, policyCall, setupScreen>>

\* The twin session's timer: the same step applied to the twin's engines.
TwinTimerFires ==
  /\ twin.currentOperationIndex < Len(operations)
  /\ LET currentOp == operations[twin.currentOperationIndex + 1]
     IN twin' =
          [optSimState |->
             processAlgorithmStep(twin.optSimState, currentOp, operations,
                                  twin.currentOperationIndex),
           selectedAlgoSimState |->
             processAlgorithmStep(twin.selectedAlgoSimState, currentOp, operations,
                                  twin.currentOperationIndex),
           currentOperationIndex |-> twin.currentOperationIndex + 1]
  /\ UNCHANGED <<params, operations, initialNextPtrId, optSimState,
                 selectedAlgoSimState, isPaused, currentOperationIndex,
                 policyCall, setupScreen>>

Next == TimerFires \/ TogglePause \/ handleResetSimulation

Spec == Init /\ [][Next]_vars

\* Two sessions side by side, each advanced by its own timer.
NextTwoSessions == TimerFires \/ TogglePause \/ TwinTimerFires

SpecTwoSessions == Init /\ [][NextTwoSessions]_vars

\* A session that is reset and run again.
NextReplay == TimerFires \/ TogglePause \/ ReplayReset

SpecReplay == Init /\ [][NextReplay]_vars

\* runSimulationStep called once the stream is exhausted.  The playback
\* effect sets no timer then; the call runs the first branch of the
\* function.
StepAtEnd ==
  /\ currentOperationIndex >= Len(operations)
  /\ runSimulationStep

NextDriver == TimerFires \/ TogglePause \/ handleResetSimulation \/ StepAtEnd

SpecDriver == Init /\ [][NextDriver]_vars

\* ------------------------------------------------------------------------
\* generateOperations (SetupScreen.tsx).  The draws of rng() are tenths,
\* chosen afresh at every call; one action is one iteration of the for
\* loop, and the end of the loop with what follows it is another.
\* ------------------------------------------------------------------------
GenDraws == {0, 2, 5, 8, 9}

\* Math.floor(rng() * n)
FloorOfDraw(draw, n) == (draw * n) \div 10

\* `P${i}`
PidName(i) == "P" \o ToString(i)

\* The setup screen before any button is pressed.
IdleSetup ==
  [phase |-> "idle",
   handler |-> "none",
   numProcesses |-> 0,
   numOps |-> 0,
   opCount |-> 0,
   operations |-> <<>>,
   processStates |-> <<>>,
   globalNextPtrId |-> 1,
   content |-> <<>>,
   opsToSimulate |-> <<>>,
   finalNextPtrId |-> 1]

\* generateOperations up to its for loop, called by `handler`.
StartGeneration(handler, numProcesses, numOps) ==
  [IdleSetup EXCEPT
     !.phase = "generating",
     !.handler = handler,
     !.numProcesses = numProcesses,
     !.numOps = numOps,
     !.processStates = [i \in 1..numProcesses |->
                          [activePtrIds |-> <<>>, isKilled |-> FALSE]]]

\* pids.filter(pid => !processStates[pid].isKilled), as process numbers.
AvailablePids(g) ==
  SelectSeq([i \in 1..g.numProcesses |-> i],
            LAMBDA i : ~g.processStates[i].isKilled)

\* The if/else chain on roll; third is the draw of its last branch.
ChooseOpType(g, canUseOrDelete, roll, third) ==
  IF roll < 4 THEN "new"
  ELSE IF canUseOrDelete /\ roll < 7 THEN "use"
  ELSE IF canUseOrDelete /\ roll < 9 THEN "delete"
  ELSE IF third < 7 /\ g.opCount < g.numOps - Len(AvailablePids(g)) THEN "new"
  ELSE "kill"

\* if ((opType === 'use' || opType === 'delete') && !canUseOrDelete) opType = 'new'
FixOpType(opType, canUseOrDelete) ==
  IF opType \in {"use", "delete"} /\ ~canUseOrDelete THEN "new" ELSE opType

\* The cases of the switch, for process i and the draw of the case.
EmitNew(g, i, draw) ==
  [g EXCEPT
     !.operations = Append(@, Instruction("new", PidName(i),
                                          (draw * (16 * 1024 - 100)) \div 10 + 100,
                                          g.globalNextPtrId)),
     !.processStates[i].activePtrIds = Append(@, g.globalNextPtrId),
     !.globalNextPtrId = @ + 1,
     !.opCount = @ + 1]

EmitUse(g, i, draw) ==
  [g EXCEPT
     !.operations =
        Append(@, Instruction("use", PidName(i), UndefNum,
                              g.processStates[i].activePtrIds[
                                FloorOfDraw(draw, Len(g.processStates[i].activePtrIds)) + 1])),
     !.opCount = @ + 1]

\* Faulty variant: the pointer deleted stays in the list of live pointers.
EmitDeleteKeepsPointer(g, i, draw) ==
  [g EXCEPT
     !.operations =
        Append(@, Instruction("delete", PidName(i), UndefNum,
                              g.processStates[i].activePtrIds[
                                FloorOfDraw(draw, Len(g.processStates[i].activePtrIds)) + 1])),
     !.opCount = @ + 1]

EmitDelete(g, i, draw) ==
  [g EXCEPT
     !.operations =
        Append(@, Instruction("delete", PidName(i), UndefNum,
                              g.processStates[i].activePtrIds[
                                FloorOfDraw(draw, Len(g.processStates[i].activePtrIds)) + 1])),
     !.processStates[i].activePtrIds =
        Splice(@, FloorOfDraw(draw, Len(@)) + 1),
     !.opCount = @ + 1]

EmitKill(g, i) ==
  [g EXCEPT
     !.operations = Append(@, Instruction("kill", PidName(i), UndefNum, UndefNum)),
     !.processStates[i].isKilled = TRUE,
     !.processStates[i].activePtrIds = <<>>,
     !.opCount = @ + 1]

\* The switch on opType; the draw of `new`, `use` and `delete` is taken
\* inside the case.
EmitTyped(g, i, opType) ==
  CASE opType = "new" -> \E draw \in GenDraws : setupScreen' = EmitNew(g, i, draw)
    [] opType = "use" -> \E draw \in GenDraws : setupScreen' = EmitUse(g, i, draw)
    [] opType = "delete" -> \E draw \in GenDraws : setupScreen' = EmitDelete(g, i, draw)
    [] opType = "kill" -> setupScreen' = EmitKill(g, i)

\* One iteration for the process i chosen, after the draw of roll.
EmitChosen(g, i, canUseOrDelete, roll) ==
  IF roll < 4 \/ (canUseOrDelete /\ roll < 9)
    THEN EmitTyped(g, i, FixOpType(ChooseOpType(g, canUseOrDelete, roll, 0),
                                   canUseOrDelete))
    ELSE \E third \in GenDraws :
           EmitTyped(g, i, FixOpType(ChooseOpType(g, canUseOrDelete, roll, third),
                                     canUseOrDelete))

\* One iteration of the for loop of generateOperations.
GenerationStep ==
  /\ setupScreen.phase = "generating"
  /\ setupScreen.opCount < setupScreen.numOps
  /\ Len(AvailablePids(setupScreen)) > 0
  /\ \E pick \in GenDraws, roll \in GenDraws :
        EmitChosen(setupScreen,
                   AvailablePids(setupScreen)[
                     FloorOfDraw(pick, Len(AvailablePids(setupScreen))) + 1],
                   Len(setupScreen.processStates[
                         AvailablePids(setupScreen)[
                           FloorOfDraw(pick, Len(AvailablePids(setupScreen))) + 1]
                       ].activePtrIds) > 0,
                   roll)
  /\ UNCHANGED <<params, operations, initialNextPtrId, optSimState,
                 selectedAlgoSimState, isPaused, currentOperationIndex, twin,
                 policyCall>>

\* pids.forEach(pid => if not killed, push kill)
RECURSIVE FinalKills(_, _)
FinalKills(g, i) ==
  IF i > g.numProcesses THEN <<>>
  ELSE (IF g.processStates[i].isKilled THEN <<>>
        ELSE <<Instruction("kill", PidName(i), UndefNum, UndefNum)>>)
       \o FinalKills(g, i + 1)

\* operations.slice(0, numOps) for numOps >= 0
SliceTo(seq, n) == SubSeq(seq, 1, IF n < Len(seq) THEN n ELSE Len(seq))

\* What generateOperations returns once the loop is over.
GeneratedStream(g) == SliceTo(g.operations \o FinalKills(g, 1), g.numOps)

\* handleGenerateOperations after generateOperations: the stream is kept as
\* the text of the file offered for download.
KeepGenerated(g, ops) ==
  [g EXCEPT
     !.phase = "generated",
     !.operations = ops,
     !.finalNextPtrId = g.globalNextPtrId,
     !.content = operationsToCsv(ops)]

\* The end of handleSubmit: nothing is started without operations.
StartWith(g, ops, nextPtrId) ==
  IF Len(ops) = 0 THEN [g EXCEPT !.phase = "rejected"]
  ELSE [g EXCEPT
          !.phase = "submitted",
          !.opsToSimulate = ops,
          !.finalNextPtrId = nextPtrId]

\* The loop of generateOperations is over (numOps iterations, or no process
\* left): the final kills, the cut, and the rest of the calling handler.
GenerationEnd ==
  /\ setupScreen.phase = "generating"
  /\ \/ setupScreen.opCount >= setupScreen.numOps
     \/ Len(AvailablePids(setupScreen)) = 0
  /\ setupScreen' =
       IF setupScreen.handler = "handleGenerateOperations"
         THEN KeepGenerated(setupScreen, GeneratedStream(setupScreen))
         ELSE StartWith([setupScreen EXCEPT
                           !.operations = GeneratedStream(setupScreen)],
                        GeneratedStream(setupScreen), setupScreen.globalNextPtrId)
  /\ UNCHANGED <<params, operations, initialNextPtrId, optSimState,
                 selectedAlgoSimState, isPaused, currentOperationIndex, twin,
                 policyCall>>

\* handleSubmit with a file loaded or a generated text kept: the text is
\* parsed and the simulation started on the result.
SubmitParsed(g, parsedData) == StartWith(g, parsedData.ops, parsedData.nextPtrId)

handleSubmit ==
  /\ setupScreen.phase \in {"file", "generated"}
  /\ setupScreen' = SubmitParsed(setupScreen, parseCsvToOperations(setupScreen.content))
  /\ UNCHANGED <<params, operations, initialNextPtrId, optSimState,
                 selectedAlgoSimState, isPaused, currentOperationIndex, twin,
                 policyCall>>

\* The lines the files of the model are made of: recognised lines in both
\* cases, with and without blanks around them, a pid made of digits, blank
\* lines, and lines that match no pattern.
CsvLines ==
  { Line("new", <<Word("P1"), Digits(4096)>>, FALSE),
    Line("NEW", <<Word("P2"), Digits(100)>>, TRUE),
    Line("new", <<Digits(7), Digits(0)>>, FALSE),
    Line("use", <<Digits(1)>>, FALSE),
    Line("Use", <<Digits(2)>>, TRUE),
    Line("delete", <<Digits(1)>>, FALSE),
    Line("kill", <<Word("P1")>>, FALSE),
    Line("", <<>>, TRUE),
    Line("use", <<Word("P1")>>, FALSE),
    Line("new", <<Word("P1")>>, FALSE),
    Line("free", <<Digits(1)>>, FALSE),
    Line("new", <<Word("P1"), Other("-5")>>, FALSE) }

Files == UNION {[1..n -> CsvLines] : n \in 0..MaxLines}

\* The setup screen with a file chosen, or with one of the two handlers
\* that generate a stream about to run.
InitSetup ==
  /\ params = [seed |-> "s0", selectedAlgorithm |-> "FIFO"]
  /\ operations = <<>>
  /\ initialNextPtrId = 1
  /\ optSimState = getInitialAlgorithmSimulationState("OPT", "s0", 1)
  /\ selectedAlgoSimState = getInitialAlgorithmSimulationState("FIFO", "s0", 1)
  /\ isPaused = TRUE
  /\ currentOperationIndex = 0
  /\ twin = NewSession("s0", "FIFO", 1)
  /\ policyCall = NoPolicyCall
  /\ \/ \E file \in Files :
          setupScreen = [IdleSetup EXCEPT !.phase = "file", !.content = file]
     \/ \E handler \in {"handleGenerateOperations", "handleSubmit"},
           numProcesses \in 1..MaxProcs, numOps \in 0..MaxGenOps :
          setupScreen = StartGeneration(handler, numProcesses, numOps)

NextSetup == GenerationStep \/ GenerationEnd \/ handleSubmit

SpecSetup == InitSetup /\ [][NextSetup]_vars

\* ------------------------------------------------------------------------
\* A replacement policy called on its own (algorithms.ts), on contexts drawn
\* from bounded sets.  A drawn context has frame k either free or holding
\* page 0 of ptr k + 1 of process P1, and a page to load that is in no frame.
\* Each policy's contexts vary the fields that policy reads (FIFO the load
\* stamps, MRU and LRU the access stamps, SC the R bits and the hand, RND the
\* generator, OPT the instruction list and index); the other stamps are 1,
\* as after a `new` at time 1, and the R bit is defined only for SC.
\* ------------------------------------------------------------------------
Stamps == 1..MaxStamp

FreeFilling ==
  [free |-> TRUE, loaded |-> UndefNum, access |-> UndefNum, rbit |-> "undefined"]

Filling(loaded, access, rbit) ==
  [free |-> FALSE, loaded |-> loaded, access |-> access, rbit |-> rbit]

OccupiedFillings(name) ==
  CASE name = "FIFO" -> {Filling(t, t, "undefined") : t \in Stamps}
    [] name \in {"MRU", "LRU"} -> {Filling(1, t, "undefined") : t \in Stamps}
    [] name = "SC" -> {Filling(1, 1, b) : b \in {"true", "false"}}
    [] OTHER -> {Filling(1, 1, "undefined")}

FrameFillings(name) == {FreeFilling} \cup OccupiedFillings(name)

DrawnPageId(k) == LogicalPageId(k, 0, "P1")

\* A PageFrame with frameId k - 1 filled as `fill` says.
DrawnFrame(k, fill) ==
  IF fill.free THEN EmptyFrame(k - 1)
  ELSE [frameId |-> k - 1,
        isOccupied |-> TRUE,
        logicalPageId |-> DrawnPageId(k),
        pid |-> "P1",
        loadedTimestamp |-> fill.loaded,
        lastAccessTimestamp |-> fill.access,
        referencedBit |-> fill.rbit]

\* The LogicalPage resident in frame k - 1.
DrawnPage(k, fill) ==
  [id |-> DrawnPageId(k),
   pid |-> "P1",
   ptrId |-> k,
   pageIndexInPtr |-> 0,
   isLoadedInRam |-> TRUE,
   frameId |-> k - 1,
   diskAddress |-> NoDisk,
   ramLoadTimestamp |-> fill.loaded,
   ramLastAccessTimestamp |-> fill.access,
   referencedBit |-> fill.rbit,
   contentSizeBytes |-> PAGE_SIZE_BYTES]

\* The page that faulted: page 0 of a further ptr, not yet in any frame.
DrawnPageToLoad(name) ==
  [id |-> DrawnPageId(TOTAL_RAM_FRAMES + 1),
   pid |-> "P1",
   ptrId |-> TOTAL_RAM_FRAMES + 1,
   pageIndexInPtr |-> 0,
   isLoadedInRam |-> FALSE,
   frameId |-> UndefNum,
   diskAddress |-> DiskAddress(DrawnPageId(TOTAL_RAM_FRAMES + 1)),
   ramLoadTimestamp |-> UndefNum,
   ramLastAccessTimestamp |-> UndefNum,
   referencedBit |-> IF name = "SC" THEN "false" ELSE "undefined",
   contentSizeBytes |-> PAGE_SIZE_BYTES]

\* The resident pages, in frame order.
RECURSIVE DrawnMmu(_, _)
DrawnMmu(fills, k) ==
  IF k > Len(fills) THEN <<>>
  ELSE (IF fills[k].free THEN <<>> ELSE <<DrawnPage(k, fills[k])>>)
       \o DrawnMmu(fills, k + 1)

DrawnOccupied(fills) == {k \in 1..Len(fills) : ~fills[k].free}

\* The engine of policy `name` whose frames are filled as `fills` says: every
\* resident page was allocated by a `new` of its own that found a free frame.
DrawnResident(name, fills, hand, rng) ==
  [getInitialAlgorithmSimulationState(name, "s0", 1) EXCEPT
     !.ramFrames = [k \in 1..Len(fills) |-> DrawnFrame(k, fills[k])],
     !.mmu = DrawnMmu(fills, 1),
     !.scHandPosition = hand,
     !.rng = rng,
     !.nextPtrIdToAssign = TOTAL_RAM_FRAMES + 1,
     !.activePointers = [k \in DrawnOccupied(fills) |->
                           [pid |-> "P1", pageIds |-> <<DrawnPageId(k)>>]],
     !.metrics.pageHits = Cardinality(DrawnOccupied(fills)),
     !.metrics.totalSimulationTime = MaxStamp,
     !.metrics.ramUsedKb = PAGE_SIZE_KB * Cardinality(DrawnOccupied(fills))]

\* That engine inside the `new` of the further ptr, at the call of the
\* policy: the page has been pushed and its fault booked.
DrawnEngine(name, fills, hand, rng) ==
  BookFault(NewPush(DrawnResident(name, fills, hand, rng), DrawnPageToLoad(name)))

DrawnContext(engine, future, idx) ==
  ReplacementContext(engine, engine.mmu[Len(engine.mmu)], future, idx)

\* The call record: the engine at the call, the context handed over and
\* what the call gave; committed says that the engine has acted on it.
DrawnCall(name, engine, future, idx) ==
  [name |-> name,
   engine |-> engine,
   context |-> DrawnContext(engine, future, idx),
   decision |-> [outcome |-> "pending"],
   committed |-> FALSE]

Hands(name) ==
  IF name = "SC" THEN 0..(TOTAL_RAM_FRAMES - 1) ELSE {0}

Rngs(name) ==
  IF name = "RND"
    THEN {[key |-> <<seed, name>>, calls |-> c] : seed \in Seeds, c \in 0..MaxDraws}
    ELSE {SeedRandom("s0", name)}

\* The instructions of the lists handed to OPT.
FutureInstructions ==
  {Instruction("use", "P1", UndefNum, k) : k \in 1..TOTAL_RAM_FRAMES}
    \cup {Instruction("delete", "P1", UndefNum, 1),
          Instruction("new", "P1", PAGE_SIZE_BYTES, 1),
          Instruction("kill", "P1", UndefNum, UndefNum)}

Futures(name) ==
  IF name = "OPT" THEN [1..FutureLen -> FutureInstructions] ELSE {<<>>}

FutureIndexes(name) == IF name = "OPT" THEN 0..(FutureLen - 1) ELSE {0}

\* algoFn(replacementContext) for the policy registered under `name`; the
\* map has no function for LRU, so there is nothing to call ("missing").
CallPolicy(name, context) ==
  IF HasAlgorithm(name) THEN pageReplacementAlgorithms(name, context)
  ELSE [Throw(context) EXCEPT !.outcome = "missing"]

InitPolicies ==
  /\ params = [seed |-> "s0", selectedAlgorithm |-> "FIFO"]
  /\ operations = <<>>
  /\ initialNextPtrId = 1
  /\ optSimState = getInitialAlgorithmSimulationState("OPT", "s0", 1)
  /\ selectedAlgoSimState = getInitialAlgorithmSimulationState("FIFO", "s0", 1)
  /\ isPaused = TRUE
  /\ currentOperationIndex = 0
  /\ twin = NewSession("s0", "FIFO", 1)
  /\ setupScreen = NoSetup
  /\ \E name \in AlgorithmName :
       \E fills \in [1..TOTAL_RAM_FRAMES -> FrameFillings(name)],
          hand \in Hands(name), rng \in Rngs(name),
          future \in Futures(name), idx \in FutureIndexes(name) :
            policyCall = DrawnCall(name, DrawnEngine(name, fills, hand, rng),
                                   future, idx)

\* The policy is called on the drawn context.
InvokePolicy ==
  /\ policyCall.name # "none"
  /\ policyCall.decision.outcome = "pending"
  /\ policyCall' = [policyCall EXCEPT
                      !.decision = CallPolicy(policyCall.name, policyCall.context)]
  /\ UNCHANGED <<params, operations, initialNextPtrId, optSimState,
                 selectedAlgoSimState, isPaused, currentOperationIndex, twin, setupScreen>>

\* ------------------------------------------------------------------------
\* The session run on fixed streams: process P1 fills the RAM with
\* single-page allocations (ptr k lands in frame k - 1) and then forces one
\* more page in.
\* ------------------------------------------------------------------------
Repeat(line, n) == [k \in 1..n |-> line]

FillRam == Repeat(RawNew("P1", PAGE_SIZE_BYTES), TOTAL_RAM_FRAMES)

OneMore == <<RawNew("P1", PAGE_SIZE_BYTES)>>

\* S1: as many single-page allocations as frames, and one more.
ScenarioS1 == FillRam \o OneMore
\* S2: fill the RAM, use(1), one more allocation.
ScenarioS2 == FillRam \o <<RawUse(1)>> \o OneMore
\* S3: one allocation more than frames, use(1), use(2), one more allocation.
ScenarioS3 == FillRam \o OneMore \o <<RawUse(1), RawUse(2)>> \o OneMore
\* S4: fill the RAM, use(1), use(2), one more allocation.
ScenarioS4 == FillRam \o <<RawUse(1), RawUse(2)>> \o OneMore
\* S5: fill the RAM, delete(2), one more allocation.
ScenarioS5 == FillRam \o <<RawDelete(2)>> \o OneMore

\* Fill the RAM, delete(1), delete(2), then one allocation of two pages.
ScenarioReuse ==
  FillRam \o <<RawDelete(1), RawDelete(2), RawNew("P1", 2 * PAGE_SIZE_BYTES)>>

Scenarios ==
  {ScenarioS1, ScenarioS2, ScenarioS3, ScenarioS4, ScenarioS5, ScenarioReuse}

\* The engine acts on the victim the policy returned: the replacement branch
\* of `new` from the eviction to the SC post-decision handling.
CommitDecision ==
  /\ policyCall.name # "none"
  /\ policyCall.decision.outcome = "ok"
  /\ ~policyCall.committed
  /\ policyCall' = [policyCall EXCEPT
                      !.engine = NewByReplacement(@, Len(@.mmu), policyCall.decision),
                      !.committed = TRUE]
  /\ UNCHANGED <<params, operations, initialNextPtrId, optSimState,
                 selectedAlgoSimState, isPaused, currentOperationIndex, twin, setupScreen>>

InitScenarios ==
  /\ \E seed \in Seeds, alg \in SelectableAlgorithms :
        /\ alg # "RND" => seed = "s0"
        /\ params = [seed |-> seed, selectedAlgorithm |-> alg]
  /\ \E raw \in Scenarios :
        /\ operations = NumberStream(raw, 1, 1, <<>>).ops
        /\ initialNextPtrId = NumberStream(raw, 1, 1, <<>>).nextPtrId
  /\ optSimState =
       getInitialAlgorithmSimulationState("OPT", params.seed, initialNextPtrId)
  /\ selectedAlgoSimState =
       getInitialAlgorithmSimulationState(params.selectedAlgorithm, params.seed,
                                          initialNextPtrId)
  /\ isPaused = TRUE
  /\ currentOperationIndex = 0
  /\ twin = NewSession(params.seed, params.selectedAlgorithm, initialNextPtrId)
  /\ policyCall = NoPolicyCall
  /\ setupScreen = NoSetup

\* ------------------------------------------------------------------------
\* The contracts of the policies: each policy called on its own on the drawn
\* contexts, and the session run on the fixed streams.
\* ------------------------------------------------------------------------
InitContracts == InitPolicies \/ InitScenarios

NextContracts == InvokePolicy \/ CommitDecision \/ Next

SpecContracts == InitContracts /\ [][NextContracts]_vars

\* ------------------------------------------------------------------------
\* Properties
\* ------------------------------------------------------------------------
\* The two engines of the session.
Engines == {optSimState, selectedAlgoSimState}

PagesOf(e) == {e.mmu[k] : k \in 1..Len(e.mmu)}
ResidentPages(e) == {k \in 1..Len(e.mmu) : e.mmu[k].isLoadedInRam}
SwappedPages(e) == {k \in 1..Len(e.mmu) : ~e.mmu[k].isLoadedInRam}
FreeFrames(e) == {k \in 1..Len(e.ramFrames) : ~e.ramFrames[k].isOccupied}
RamIsFull(e) == FreeFrames(e) = {}

\* Every resident page has a frameId whose frame is occupied and names it.
PageSideMapped(e) ==
  \A k \in ResidentPages(e) :
     /\ e.mmu[k].frameId \in 0..(Len(e.ramFrames) - 1)
     /\ e.ramFrames[e.mmu[k].frameId + 1].isOccupied
     /\ e.ramFrames[e.mmu[k].frameId + 1].logicalPageId = e.mmu[k].id

\* Every occupied frame names a page of the MMU that is resident in it.
FrameSideMapped(e) ==
  \A f \in 1..Len(e.ramFrames) :
     e.ramFrames[f].isOccupied =>
       \E k \in 1..Len(e.mmu) :
          /\ e.mmu[k].id = e.ramFrames[f].logicalPageId
          /\ e.mmu[k].isLoadedInRam
          /\ e.mmu[k].frameId = e.ramFrames[f].frameId

\* C1: after any sequence of new/use/delete/kill, under every policy, the
\* frame/page mapping is bidirectional: every resident page has a frameId
\* whose frame is occupied and names that page, and every occupied frame
\* names a page of the MMU that is resident with that frame's id.
C1_BidirectionalMapping ==
  \A e \in Engines : PageSideMapped(e) /\ FrameSideMapped(e)

\* C1 is exercised: an engine has replaced a page (RAM is full, a page that
\* was loaded is now swapped out, another is resident).
C1_Witness ==
  \E e \in Engines :
     /\ RamIsFull(e)
     /\ e.metrics.pageFaults > 0
     /\ \E k \in SwappedPages(e) : e.mmu[k].ramLoadTimestamp # UndefNum
     /\ ResidentPages(e) # {}

\* C2: after every instruction ramUsedKb = 4 x (number of resident pages),
\* so that ramUsedKb + 4 x (free frames) = 4 x TOTAL_RAM_FRAMES, also when a
\* `new` page is installed by evicting a victim from a full RAM.
C2_RamUsedMatchesResident ==
  \A e \in Engines :
     /\ e.metrics.ramUsedKb = PAGE_SIZE_KB * Cardinality(ResidentPages(e))
     /\ e.metrics.ramUsedKb + PAGE_SIZE_KB * Cardinality(FreeFrames(e))
          = PAGE_SIZE_KB * TOTAL_RAM_FRAMES

\* C3: after every instruction vRamUsedKb = 4 x (number of pages of the MMU
\* that are not resident), for every policy and instruction sequence.
C3_VRamUsedMatchesSwapped ==
  \A e \in Engines :
     e.metrics.vRamUsedKb = PAGE_SIZE_KB * Cardinality(SwappedPages(e))

\* C3 is exercised: an engine holds swapped-out pages after a replacement
\* and after pages have been removed from the MMU.
C3_Witness ==
  \E e \in Engines :
     /\ e.metrics.vRamUsedKb >= PAGE_SIZE_KB
     /\ SwappedPages(e) # {}
     /\ \E k \in 1..currentOperationIndex :
           operations[k].type \in {"delete", "kill"}
     /\ \E k \in 1..currentOperationIndex : operations[k].type = "use"

\* C4: in every reachable engine state
\* totalSimulationTime = HIT_TIME x pageHits + FAULT_TIME x pageFaults.
C4_TotalTime ==
  \A e \in Engines :
     e.metrics.totalSimulationTime =
       HIT_TIME * e.metrics.pageHits + FAULT_TIME * e.metrics.pageFaults

\* C4 is exercised: an engine has booked hits and faults, by `new` and `use`.
C4_Witness ==
  \E e \in Engines :
     /\ e.metrics.pageHits > 0
     /\ e.metrics.pageFaults > 1
     /\ \E k \in 1..currentOperationIndex : operations[k].type = "use"

\* C5: in every reachable engine state thrashingTime = FAULT_TIME x
\* pageFaults, and therefore thrashingTime <= totalSimulationTime.
C5_ThrashingTime ==
  \A e \in Engines :
     /\ e.metrics.thrashingTime = FAULT_TIME * e.metrics.pageFaults
     /\ e.metrics.thrashingTime <= e.metrics.totalSimulationTime

\* C5 is exercised: an engine has thrashed, for less than its total time.
C5_Witness ==
  \E e \in Engines :
     /\ e.metrics.thrashingTime >= 2 * FAULT_TIME
     /\ e.metrics.thrashingTime < e.metrics.totalSimulationTime

\* C6: for every instruction stream and every prefix of it, OPT's
\* pageFaults is at most the pageFaults of the engine running the other
\* policy (FIFO, SC, MRU, LRU, RND) over the same instructions, also when a
\* single ptr spans several pages (possibly more than the frames).
C6_OptLowerBound ==
  optSimState.metrics.pageFaults <= selectedAlgoSimState.metrics.pageFaults

PidsInMmu(e) == {e.mmu[k].pid : k \in 1..Len(e.mmu)}

\* C8: after every instruction runningProcessesCount is the number of
\* distinct pids among the pages in the MMU, also after a `new` of zero
\* pages and after a `new` that could not create all of its pages.
C8_RunningProcesses ==
  \A e \in Engines :
     e.metrics.runningProcessesCount = Cardinality(PidsInMmu(e))

\* C9: after every instruction every ptrId of activePointers has at least
\* one page in the MMU, and every page of the MMU is listed in the pageIds
\* of exactly the activePointers entry of its ptrId (no orphan pages).
C9_PointersHavePages ==
  \A e \in Engines :
     /\ \A p \in DOMAIN e.activePointers :
           \E k \in 1..Len(e.mmu) : e.mmu[k].ptrId = p
     /\ \A k \in 1..Len(e.mmu) :
           \A p \in DOMAIN e.activePointers :
              (\E j \in 1..Len(e.activePointers[p].pageIds) :
                  e.activePointers[p].pageIds[j] = e.mmu[k].id)
                <=> p = e.mmu[k].ptrId
     /\ \A k \in 1..Len(e.mmu) : e.mmu[k].ptrId \in DOMAIN e.activePointers

Resident(page) ==
  page.isLoadedInRam /\ page.frameId # UndefNum /\ page.diskAddress = NoDisk

Swapped(page) ==
  ~page.isLoadedInRam /\ page.frameId = UndefNum /\ page.diskAddress # NoDisk

\* C10: after every instruction every page of the MMU is in exactly one of
\* two conditions: resident (isLoadedInRam, frameId defined, diskAddress
\* undefined) or swapped (not isLoadedInRam, frameId undefined, diskAddress
\* defined).
C10_ResidentXorSwapped ==
  \A e \in Engines :
     \A page \in PagesOf(e) : Resident(page) /= Swapped(page)

\* C10 is exercised: an engine holds a page that was swapped out and loaded
\* back by `use`, next to a page swapped out by that load.
C10_Witness ==
  \E e \in Engines :
     /\ \E page \in PagesOf(e) :
           /\ Resident(page)
           /\ page.ramLoadTimestamp > page.ramLastAccessTimestamp
     /\ \E page \in PagesOf(e) :
           Swapped(page) /\ page.ramLastAccessTimestamp # UndefNum

\* The bytes wasted by the pages at the mmu indexes of S.
RECURSIVE SumWasted(_, _)
SumWasted(e, S) ==
  IF S = {} THEN 0
  ELSE (PAGE_SIZE_BYTES - e.mmu[Least(S)].contentSizeBytes)
       + SumWasted(e, S \ {Least(S)})

\* C11: after every instruction internalFragmentationKb is the sum over the
\* resident pages of (4096 - contentSizeBytes) / 1024 (kept here in bytes,
\* that is in units of 1/1024 KB); swapped-out pages contribute nothing.
C11_InternalFragmentation ==
  \A e \in Engines :
     e.metrics.internalFragmentationKb = SumWasted(e, ResidentPages(e))

\* C11 is exercised: an engine holds a partly filled page that is resident
\* and a partly filled page that is swapped out.
C11_Witness ==
  \E e \in Engines :
     /\ e.metrics.internalFragmentationKb > 0
     /\ \E k \in SwappedPages(e) : e.mmu[k].contentSizeBytes < PAGE_SIZE_BYTES
     /\ \E k \in ResidentPages(e) : e.mmu[k].contentSizeBytes < PAGE_SIZE_BYTES

\* The instruction the last step applied (defined when LastOpIs holds).
LastOp == operations[currentOperationIndex]

LastOpIs(type) ==
  /\ currentOperationIndex >= 1
  /\ LastOp.type = type

\* No page, pointer or occupied frame of engine e belongs to pid.
PidIsGone(e, pid) ==
  /\ \A k \in 1..Len(e.mmu) : e.mmu[k].pid # pid
  /\ \A p \in DOMAIN e.activePointers : e.activePointers[p].pid # pid
  /\ \A f \in 1..Len(e.ramFrames) :
        e.ramFrames[f].isOccupied =>
          /\ e.ramFrames[f].pid # pid
          /\ e.ramFrames[f].logicalPageId[3] # pid

\* C12: after kill(pid) is applied in any reachable state, no page with
\* that pid remains in the MMU, no activePointers entry has that pid, and no
\* occupied frame names a page of that pid.
C12_KillRemovesProcess ==
  LastOpIs("kill") => \A e \in Engines : PidIsGone(e, LastOp.pid)

\* C12 is exercised: the killed process had allocated two pointers, one of
\* them larger than the RAM, so that it had resident and swapped pages.
C12_Witness ==
  /\ LastOpIs("kill")
  /\ currentOperationIndex = 3
  /\ \A k \in 1..2 :
        /\ operations[k].type = "new"
        /\ operations[k].pid = LastOp.pid
  /\ operations[1].size > TOTAL_RAM_FRAMES * PAGE_SIZE_BYTES

\* The step from engine state old to new left everything of the processes
\* other than pid as it was: their page records, the frames holding their
\* pages and their activePointers entries.
OthersUntouched(old, new, pid) ==
  /\ SelectSeq(new.mmu, LAMBDA page : page.pid # pid)
       = SelectSeq(old.mmu, LAMBDA page : page.pid # pid)
  /\ \A f \in 1..Len(old.ramFrames) :
        (old.ramFrames[f].isOccupied /\ old.ramFrames[f].pid # pid)
          => new.ramFrames[f] = old.ramFrames[f]
  /\ \A p \in DOMAIN old.activePointers :
        old.activePointers[p].pid # pid =>
          /\ p \in DOMAIN new.activePointers
          /\ new.activePointers[p] = old.activePointers[p]
  /\ \A p \in DOMAIN new.activePointers : p \in DOMAIN old.activePointers

\* runningProcessesCount drops by exactly one when pid had a live pointer.
CountDropsByOne(old, new, pid) ==
  (\E p \in DOMAIN old.activePointers : old.activePointers[p].pid = pid)
    => new.metrics.runningProcessesCount = old.metrics.runningProcessesCount - 1

\* The step applies the instruction of the given type at the current index.
StepApplies(type) ==
  /\ currentOperationIndex < Len(operations)
  /\ currentOperationIndex' = currentOperationIndex + 1
  /\ operations[currentOperationIndex + 1].type = type

\* C13: kill(A) leaves every other process untouched: for every pid B # A,
\* B's pages (residency, frame ids, timestamps), the frames holding them and
\* B's activePointers entries are unchanged, and runningProcessesCount
\* decreases by exactly one when A had a live ptr.
C13_KillLeavesOthers ==
  [][StepApplies("kill") =>
       /\ OthersUntouched(optSimState, optSimState',
                          operations[currentOperationIndex + 1].pid)
       /\ OthersUntouched(selectedAlgoSimState, selectedAlgoSimState',
                          operations[currentOperationIndex + 1].pid)
       /\ CountDropsByOne(optSimState, optSimState',
                          operations[currentOperationIndex + 1].pid)
       /\ CountDropsByOne(selectedAlgoSimState, selectedAlgoSimState',
                          operations[currentOperationIndex + 1].pid)]_vars

\* C13 is exercised: a process with pages was killed while another process
\* holds resident and swapped pages; one process is left running.
C13_Witness ==
  /\ LastOpIs("kill")
  /\ \E k \in 1..currentOperationIndex :
        /\ operations[k].type = "new"
        /\ operations[k].pid = LastOp.pid
        /\ operations[k].size > 0
  /\ \E e \in Engines :
        /\ e.metrics.runningProcessesCount = 1
        /\ \E k \in ResidentPages(e) : e.mmu[k].pid # LastOp.pid
        /\ \E k \in SwappedPages(e) : e.mmu[k].pid # LastOp.pid
        /\ FreeFrames(e) # {}

\* The ptrIds an instruction of the model's streams can name.
PtrIds == 1..MaxOps

\* The instructions delete(p), use(p) and kill(pid) as the parser builds them.
DeleteOp(p) == Instruction("delete", "", UndefNum, p)
UseOp(p) == Instruction("use", "", UndefNum, p)
KillOp(pid) == Instruction("kill", pid, UndefNum, UndefNum)

\* Engine states a and b have the same frames, MMU, activePointers and
\* metrics.
SameEngine(a, b) ==
  /\ a.ramFrames = b.ramFrames
  /\ a.mmu = b.mmu
  /\ a.activePointers = b.activePointers
  /\ a.metrics = b.metrics

\* Applying op to the state `once` (already the result of op) changes nothing.
RepeatChangesNothing(once, op) ==
  SameEngine(processAlgorithmStep(once, op, operations, currentOperationIndex),
             once)

\* C14: delete is idempotent: for every reachable state s and ptr_id p,
\* applying delete(p) twice yields the same frames, MMU, activePointers and
\* metrics as applying delete(p) once.
C14_DeleteIdempotent ==
  \A e \in Engines :
     \A p \in PtrIds :
        RepeatChangesNothing(
          processAlgorithmStep(e, DeleteOp(p), operations, currentOperationIndex),
          DeleteOp(p))

\* C14 is exercised: the session has applied delete(p) twice in a row to a
\* pointer that had resident and swapped pages.
C14_Witness ==
  /\ currentOperationIndex = 3
  /\ operations[1].type = "new"
  /\ operations[1].size > TOTAL_RAM_FRAMES * PAGE_SIZE_BYTES
  /\ operations[2].type = "delete"
  /\ operations[3].type = "delete"
  /\ operations[2].ptrId = operations[1].ptrId
  /\ operations[3].ptrId = operations[1].ptrId
  /\ \A e \in Engines : e.mmu = <<>>

\* The pids an instruction can name: those of the streams and one more.
Pids == {"P1", "P2", "P3"}

\* The fields a skipped instruction must leave as they were.
SkippedStep(old, new) ==
  /\ new.ramFrames = old.ramFrames
  /\ new.mmu = old.mmu
  /\ new.activePointers = old.activePointers
  /\ new.scHandPosition = old.scHandPosition
  /\ new.metrics.pageHits = old.metrics.pageHits
  /\ new.metrics.pageFaults = old.metrics.pageFaults
  /\ new.metrics.totalSimulationTime = old.metrics.totalSimulationTime
  /\ new.metrics.thrashingTime = old.metrics.thrashingTime

\* Applying op to engine state e is a skipped step.
IsSkipped(e, op) ==
  SkippedStep(e, processAlgorithmStep(e, op, operations, currentOperationIndex))

\* C15: a use or delete whose ptr_id is not in activePointers, and a kill
\* whose pid owns no active pointer, leave the engine state unchanged:
\* frames, MMU, activePointers, SC hand, pageHits, pageFaults,
\* totalSimulationTime and thrashingTime.
C15_UnknownTargetsSkipped ==
  \A e \in Engines :
     /\ \A p \in PtrIds \ DOMAIN e.activePointers :
           IsSkipped(e, UseOp(p)) /\ IsSkipped(e, DeleteOp(p))
     /\ \A pid \in Pids \ RunningPids(e) : IsSkipped(e, KillOp(pid))

\* C15 is exercised: with resident and swapped pages in both engines, the
\* session has applied a use of a ptr_id that is not active and then a kill
\* of a pid that owns no pointer.
C15_Witness ==
  /\ currentOperationIndex = 3
  /\ operations[1].type = "new"
  /\ operations[1].size > TOTAL_RAM_FRAMES * PAGE_SIZE_BYTES
  /\ operations[2].type = "use"
  /\ operations[2].ptrId # operations[1].ptrId
  /\ operations[3].type = "kill"
  /\ operations[3].pid # operations[1].pid
  /\ \A e \in Engines :
        /\ ResidentPages(e) # {}
        /\ SwappedPages(e) # {}
        /\ e.metrics.totalSimulationTime
             = TOTAL_RAM_FRAMES * HIT_TIME + FAULT_TIME

\* The policy call has been made.
Called == policyCall.name # "none" /\ policyCall.decision.outcome # "pending"

OccupiedIn(context) ==
  {k \in 1..Len(context.ramFrames) : context.ramFrames[k].isOccupied}

\* C16: each of the six policies (FIFO, SC, MRU, LRU, RND, OPT), called
\* with a context in which no frame is occupied, ends in an error outcome
\* (throws) instead of returning a victim or running forever.
C16_EmptyRamThrows ==
  (Called /\ OccupiedIn(policyCall.context) = {})
    => policyCall.decision.outcome = "throw"

\* The session has run the whole of the stream `raw`.
Ran(raw) ==
  /\ operations = NumberStream(raw, 1, 1, <<>>).ops
  /\ currentOperationIndex = Len(operations)

\* The ptr whose page each frame of engine e holds (0 for a free frame).
FramesHold(e) ==
  [k \in 1..Len(e.ramFrames) |->
     IF e.ramFrames[k].isOccupied THEN e.ramFrames[k].logicalPageId[1] ELSE 0]

\* The ptrs with a resident page.
ResidentPtrs(e) == {e.mmu[k].ptrId : k \in ResidentPages(e)}

\* The frames after filling the RAM and replacing the page of ptr `victim`
\* by the page of the one further ptr.
FramesAfterEvicting(victim) ==
  [k \in 1..TOTAL_RAM_FRAMES |-> IF k = victim THEN TOTAL_RAM_FRAMES + 1 ELSE k]

\* C17: with LRU chosen, a page that must be loaded while every frame is
\* occupied replaces the page with the smallest last-access timestamp: at
\* the end of S2 (fill the RAM, use(1), one more new) the page of ptr 2 has
\* been evicted and the new page sits in its frame.
C17_LruEvictsLeastRecent ==
  (Ran(ScenarioS2) /\ params.selectedAlgorithm = "LRU")
    => /\ FramesHold(selectedAlgoSimState) = FramesAfterEvicting(2)
       /\ ResidentPtrs(selectedAlgoSimState) = (1..(TOTAL_RAM_FRAMES + 1)) \ {2}

\* The policy `name` has been called on a context with an occupied frame.
CalledOnOccupied(name) ==
  /\ Called
  /\ policyCall.name = name
  /\ OccupiedIn(policyCall.context) # {}

\* The frame (index) the call chose.
Victim == policyCall.decision.victimFrameId + 1

\* Frame v is occupied, no occupied frame was loaded before it, and no
\* occupied frame loaded at the same time has a smaller frame id.
IsOldestLowest(context, v) ==
  /\ v \in OccupiedIn(context)
  /\ \A k \in OccupiedIn(context) :
        /\ context.ramFrames[v].loadedTimestamp <= context.ramFrames[k].loadedTimestamp
        /\ context.ramFrames[k].loadedTimestamp = context.ramFrames[v].loadedTimestamp
             => v <= k

\* C18: FIFO returns the occupied frame with the smallest loadedTimestamp,
\* and among frames with the same smallest loadedTimestamp the one with the
\* smallest frame id; after S1 (as many single-page `new`s as frames, and
\* one more) the FIFO engine has one hit per frame, one fault, a total time
\* of one HIT_TIME per frame plus one FAULT_TIME (3, 1 and 8 with 3 frames),
\* and its frames hold the pages of every ptr but ptr 1.
C18_FifoOldestFrame ==
  /\ CalledOnOccupied("FIFO")
       => /\ policyCall.decision.outcome = "ok"
          /\ IsOldestLowest(policyCall.context, Victim)
          /\ policyCall.decision.victimLogicalPageId =
               policyCall.context.ramFrames[Victim].logicalPageId
  /\ (Ran(ScenarioS1) /\ params.selectedAlgorithm = "FIFO")
       => /\ selectedAlgoSimState.metrics.pageHits = TOTAL_RAM_FRAMES
          /\ selectedAlgoSimState.metrics.pageFaults = 1
          /\ selectedAlgoSimState.metrics.totalSimulationTime =
               TOTAL_RAM_FRAMES * HIT_TIME + FAULT_TIME
          /\ FramesHold(selectedAlgoSimState) = FramesAfterEvicting(1)
          /\ ResidentPtrs(selectedAlgoSimState) = 2..(TOTAL_RAM_FRAMES + 1)

\* FIFO was called on a full RAM in which the two frames loaded first were
\* loaded at the same time.
C18_Witness ==
  /\ CalledOnOccupied("FIFO")
  /\ OccupiedIn(policyCall.context) = 1..TOTAL_RAM_FRAMES
  /\ \E k \in OccupiedIn(policyCall.context) :
        /\ k # Victim
        /\ policyCall.context.ramFrames[k].loadedTimestamp =
             policyCall.context.ramFrames[Victim].loadedTimestamp

\* The last-access timestamp of the page resident in frame k.
PageAccess(context, k) ==
  context.mmu[GetLogicalPageFromFrame(context.ramFrames[k], context.mmu)]
    .ramLastAccessTimestamp

\* C19: MRU returns an occupied frame whose resident page has the largest
\* last-access timestamp among the occupied frames; at the end of S2 (fill
\* the RAM, use(1), one more new) the MRU engine has evicted the page of
\* ptr 1 and holds the new page in its frame.
C19_MruMostRecent ==
  /\ CalledOnOccupied("MRU")
       => /\ policyCall.decision.outcome = "ok"
          /\ Victim \in OccupiedIn(policyCall.context)
          /\ \A k \in OccupiedIn(policyCall.context) :
                PageAccess(policyCall.context, k)
                  <= PageAccess(policyCall.context, Victim)
  /\ (Ran(ScenarioS2) /\ params.selectedAlgorithm = "MRU")
       => /\ FramesHold(selectedAlgoSimState) = FramesAfterEvicting(1)
          /\ ResidentPtrs(selectedAlgoSimState) = 2..(TOTAL_RAM_FRAMES + 1)

\* MRU was called on a full RAM and chose a frame other than the first,
\* whose page was accessed after the page of the first frame.
C19_Witness ==
  /\ CalledOnOccupied("MRU")
  /\ OccupiedIn(policyCall.context) = 1..TOTAL_RAM_FRAMES
  /\ Victim # 1
  /\ PageAccess(policyCall.context, 1) < PageAccess(policyCall.context, Victim)

\* The index of the j-th frame the hand visits, j = 0 being the frame under
\* the hand at the call.
HandPos(context, j) ==
  ((context.scHandPosition + j) % Len(context.ramFrames)) + 1

\* The reference bit of the page resident in frame k.
BitOf(context, k) ==
  context.mmu[GetLogicalPageFromFrame(context.ramFrames[k], context.mmu)]
    .referencedBit

\* The visits that find a page with reference bit 0.
ClearVisits(context) ==
  {j \in 0..(Len(context.ramFrames) - 1) : BitOf(context, HandPos(context, j)) # "true"}

\* The pages under the first n visits.
Passed(context, n) ==
  {context.ramFrames[HandPos(context, j)].logicalPageId : j \in 0..(n - 1)}

Listed(decision) ==
  {decision.pagesWhoseRBitShouldBeCleared[i] :
     i \in 1..Len(decision.pagesWhoseRBitShouldBeCleared)}

\* The decision names the frame of visit j as victim, lists exactly the
\* pages of `passed`, and moves the hand to the frame after the victim.
ScChose(context, decision, j, passed) ==
  /\ decision.outcome = "ok"
  /\ decision.victimFrameId + 1 = HandPos(context, j)
  /\ decision.victimLogicalPageId =
       context.ramFrames[HandPos(context, j)].logicalPageId
  /\ Listed(decision) = passed
  /\ Len(decision.pagesWhoseRBitShouldBeCleared) = Cardinality(passed)
  /\ decision.nextScHandPosition =
       (decision.victimFrameId + 1) % Len(context.ramFrames)

\* What Second Chance has to return on a context whose frames are all
\* occupied.
ScContract(context, decision) ==
  IF ClearVisits(context) # {}
    THEN ScChose(context, decision, Least(ClearVisits(context)),
                 Passed(context, Least(ClearVisits(context))))
    ELSE ScChose(context, decision, 0,
                 Passed(context, Len(context.ramFrames))
                   \ {context.ramFrames[HandPos(context, 0)].logicalPageId})

\* Every page of ids that is resident in engine e has reference bit 0, and
\* so has the frame holding it.
ResidentAreCleared(e, ids) ==
  \A k \in ResidentPages(e) :
     e.mmu[k].id \in ids
       => /\ e.mmu[k].referencedBit = "false"
          /\ e.ramFrames[e.mmu[k].frameId + 1].referencedBit = "false"

SecondChanceOnFullRam ==
  /\ CalledOnOccupied("SC")
  /\ OccupiedIn(policyCall.context) = 1..TOTAL_RAM_FRAMES

\* C20: with RAM full, Second Chance returns as victim the first frame from
\* the hand whose page has reference bit 0 and lists for clearing exactly
\* the pages with bit 1 it passed; if every page has bit 1 the victim is the
\* page under the hand and all other pages are listed; the next hand is
\* (victim position + 1) mod frames; once the engine has committed the
\* decision every listed page still resident has reference bit 0 on the
\* page and on its frame.
C20_SecondChance ==
  SecondChanceOnFullRam
    => /\ ScContract(policyCall.context, policyCall.decision)
       /\ policyCall.committed
            => /\ policyCall.engine.scHandPosition =
                    policyCall.decision.nextScHandPosition
               /\ ResidentAreCleared(policyCall.engine, Listed(policyCall.decision))

\* The engine has committed a Second Chance decision on a full RAM whose
\* victim was not under the hand: pages with bit 1 were passed and listed.
C20_Witness ==
  /\ SecondChanceOnFullRam
  /\ policyCall.committed
  /\ ClearVisits(policyCall.context) # {}
  /\ Listed(policyCall.decision) # {}

\* The positions, from the current index on, of the `use`s of ptrId in the
\* instruction list of the context.
UsesFromNow(context, ptrId) ==
  {i \in context.currentOperationIndex..(Len(context.futureOperations) - 1) :
     /\ context.futureOperations[i + 1].type = "use"
     /\ context.futureOperations[i + 1].ptrId = ptrId}

\* How far the next use of the page in frame k is: the number of
\* instructions up to it, or more than the list holds when there is none.
NextUseOf(context, k) ==
  IF UsesFromNow(context, context.mmu[GetLogicalPageFromFrame(
                                        context.ramFrames[k], context.mmu)].ptrId) = {}
    THEN Len(context.futureOperations) + 1
    ELSE Least(UsesFromNow(context, context.mmu[GetLogicalPageFromFrame(
                                        context.ramFrames[k], context.mmu)].ptrId))
           - context.currentOperationIndex

\* C21: OPT returns the occupied frame whose page's ptrId has its next `use`
\* farthest from the current index (no `use` at or after the current index
\* counts as infinitely far; delete, kill and new are no uses), and among
\* frames at the same farthest distance the one with the smallest frame id.
C21_OptFarthestNextUse ==
  CalledOnOccupied("OPT")
    => /\ policyCall.decision.outcome = "ok"
       /\ Victim \in OccupiedIn(policyCall.context)
       /\ policyCall.decision.victimLogicalPageId =
            policyCall.context.ramFrames[Victim].logicalPageId
       /\ \A k \in OccupiedIn(policyCall.context) :
             /\ NextUseOf(policyCall.context, k) <= NextUseOf(policyCall.context, Victim)
             /\ NextUseOf(policyCall.context, k) = NextUseOf(policyCall.context, Victim)
                  => Victim <= k

\* OPT was called on a full RAM in which the page of the first frame is
\* used again, and chose the first of two frames whose pages are equally far.
C21_Witness ==
  /\ CalledOnOccupied("OPT")
  /\ OccupiedIn(policyCall.context) = 1..TOTAL_RAM_FRAMES
  /\ Victim # 1
  /\ NextUseOf(policyCall.context, 1) <= Len(policyCall.context.futureOperations)
  /\ \E k \in OccupiedIn(policyCall.context) :
        /\ k > Victim
        /\ NextUseOf(policyCall.context, k) = NextUseOf(policyCall.context, Victim)

\* C22: at the end of S4 (fill the RAM, use(1), use(2), one more new) the
\* OPT engine has evicted the page of ptr 3 for the new page and still holds
\* the pages of ptr 1 and ptr 2.
C22_OptScenarioS4 ==
  Ran(ScenarioS4)
    => /\ FramesHold(optSimState) = FramesAfterEvicting(3)
       /\ {1, 2} \subseteq ResidentPtrs(optSimState)
       /\ 3 \notin ResidentPtrs(optSimState)

\* The session runs the stream `raw` and takes its last step.
LastStepOf(raw) ==
  /\ operations = NumberStream(raw, 1, 1, <<>>).ops
  /\ currentOperationIndex = Len(operations) - 1
  /\ currentOperationIndex' = Len(operations)

\* Every page of ptrId in engine e has reference bit 1.
HasBitSet(e, ptrId) ==
  \A k \in 1..Len(e.mmu) :
     e.mmu[k].ptrId = ptrId => e.mmu[k].referencedBit = "true"

\* The step replaces the resident page of ptr `victim` of the chosen-policy
\* engine by a page of ptr `loaded`.
Replaces(victim, loaded) ==
  /\ victim \in ResidentPtrs(selectedAlgoSimState)
  /\ ResidentPtrs(selectedAlgoSimState') =
       (ResidentPtrs(selectedAlgoSimState) \ {victim}) \cup {loaded}

\* C23: in S3 under SC (one `new` more than frames, use(1), use(2), one more
\* `new`), at the last `new` the pages of ptr 1 and ptr 2 have reference
\* bit 1, the hand is at position 0, and the page evicted is that of ptr 3.
C23_ScScenarioS3 ==
  [][(LastStepOf(ScenarioS3) /\ params.selectedAlgorithm = "SC")
       => /\ HasBitSet(selectedAlgoSimState, 1)
          /\ HasBitSet(selectedAlgoSimState, 2)
          /\ selectedAlgoSimState.scHandPosition = 0
          /\ Replaces(3, TOTAL_RAM_FRAMES + 2)]_vars

\* j = floor(r * n) for the fraction r = draw / RngDen.
IsFloorOfScaled(j, draw, n) ==
  /\ j * RngDen <= draw * n
  /\ draw * n < (j + 1) * RngDen

\* The occupied frames below frame v: their number is v's position among
\* the occupied frames in ascending frame order.
OccupiedBelow(context, v) == {k \in OccupiedIn(context) : k < v}

\* Some generator of the drawn ones makes RND return frame k of the context.
SomeDrawReturns(context, k) ==
  \E g \in Rngs("RND") :
     rndAlgorithm([context EXCEPT !.rng = g]).victimFrameId = k - 1

\* C24: RND returns an occupied frame: with n >= 1 occupied frames and the
\* generator giving r in [0,1), the victim is the occupied frame at position
\* floor(r * n) in ascending frame order, and every occupied frame is
\* returned for some r.
C24_RndScaledDraw ==
  CalledOnOccupied("RND")
    => /\ policyCall.decision.outcome = "ok"
       /\ Victim \in OccupiedIn(policyCall.context)
       /\ policyCall.decision.victimLogicalPageId =
            policyCall.context.ramFrames[Victim].logicalPageId
       /\ IsFloorOfScaled(Cardinality(OccupiedBelow(policyCall.context, Victim)),
                          RngDraw(policyCall.context.rng),
                          Cardinality(OccupiedIn(policyCall.context)))
       /\ \A k \in OccupiedIn(policyCall.context) :
             SomeDrawReturns(policyCall.context, k)

\* RND was called on a full RAM and returned a frame that is neither the
\* first nor the last.
C24_Witness ==
  /\ CalledOnOccupied("RND")
  /\ OccupiedIn(policyCall.context) = 1..TOTAL_RAM_FRAMES
  /\ Victim \notin {1, TOTAL_RAM_FRAMES}

\* The step applies a `new` that directly follows a `delete`.
NewAfterDelete ==
  /\ currentOperationIndex >= 1
  /\ StepApplies("new")
  /\ operations[currentOperationIndex].type = "delete"

\* Engine e, having at least one and enough free frames for the pages of
\* op, becomes eNext by the `new` op without a fault, with one hit per page,
\* page i in the (i+1)-th lowest of the frames that were free.
ReusesFreeFrames(e, eNext, op) ==
  (/\ FreeFrames(e) # {}
   /\ CeilDiv(op.size, PAGE_SIZE_BYTES) <= Cardinality(FreeFrames(e)))
    => /\ eNext.metrics.pageFaults = e.metrics.pageFaults
       /\ eNext.metrics.pageHits =
            e.metrics.pageHits + CeilDiv(op.size, PAGE_SIZE_BYTES)
       /\ \A i \in 0..(CeilDiv(op.size, PAGE_SIZE_BYTES) - 1) :
             eNext.ramFrames[SortedSeq(FreeFrames(e))[i + 1]].logicalPageId =
               LogicalPageId(op.ptrId, i, op.pid)

\* C25: a frame freed by delete is reused without a fault: when a `new` of
\* at most k pages follows a delete that left k >= 1 frames free, it adds no
\* page fault, counts one hit per page and places its pages in the free
\* frames, lowest frame id first; at the end of S5 (fill the RAM, delete(2),
\* one more new) pageFaults is 0 and the new page sits in the frame that
\* ptr 2 occupied.
C25_FreedFrameReused ==
  [][/\ NewAfterDelete
          => /\ ReusesFreeFrames(optSimState, optSimState',
                                 operations[currentOperationIndex + 1])
             /\ ReusesFreeFrames(selectedAlgoSimState, selectedAlgoSimState',
                                 operations[currentOperationIndex + 1])
     /\ LastStepOf(ScenarioS5)
          => /\ optSimState'.metrics.pageFaults = 0
             /\ selectedAlgoSimState'.metrics.pageFaults = 0
             /\ FramesHold(optSimState') = FramesAfterEvicting(2)
             /\ FramesHold(selectedAlgoSimState') = FramesAfterEvicting(2)]_vars

\* Two frames were freed by deletes and the allocation of two pages that
\* followed has been placed in them without a fault.
C25_Witness ==
  /\ Ran(ScenarioReuse)
  /\ selectedAlgoSimState.metrics.pageFaults = 0
  /\ selectedAlgoSimState.metrics.pageHits = TOTAL_RAM_FRAMES + 2
  /\ selectedAlgoSimState.ramFrames[1].logicalPageId =
       LogicalPageId(TOTAL_RAM_FRAMES + 1, 0, "P1")
  /\ selectedAlgoSimState.ramFrames[2].logicalPageId =
       LogicalPageId(TOTAL_RAM_FRAMES + 1, 1, "P1")

\* ------------------------------------------------------------------------
\* The setup screen: parser and generator
\* ------------------------------------------------------------------------
\* The kind of a line by the format of the instruction file: new(word,digits),
\* use(digits), delete(digits), kill(word), in either case; "none" otherwise.
LineKind(line) ==
  IF Len(line.args) = 2
    THEN (IF LowerCase(line.head) = "new" /\ line.args[1].kind \in {"word", "digits"}
             /\ line.args[2].kind = "digits"
            THEN "new" ELSE "none")
  ELSE IF Len(line.args) = 1
    THEN (IF LowerCase(line.head) \in {"use", "delete"} /\ line.args[1].kind = "digits"
            THEN LowerCase(line.head)
          ELSE IF LowerCase(line.head) = "kill"
                  /\ line.args[1].kind \in {"word", "digits"}
            THEN "kill" ELSE "none")
  ELSE "none"

RecognisedLines(content) == SelectSeq(content, LAMBDA line : LineKind(line) # "none")

\* The number of `new` lines among the first k lines.
NewsUpTo(lines, k) == Cardinality({j \in 1..k : LineKind(lines[j]) = "new"})

ParsedAsNumbered(lines, ops, nextPtrId) ==
  /\ Len(ops) = Len(lines)
  /\ \A k \in 1..Len(lines) :
        /\ ops[k].type = LineKind(lines[k])
        /\ ops[k].type = "new" =>
              /\ ops[k].ptrId = NewsUpTo(lines, k)
              /\ ops[k].pid = lines[k].args[1].text
              /\ ops[k].size = lines[k].args[2].value
        /\ ops[k].type = "kill" => ops[k].pid = lines[k].args[1].text
        /\ ops[k].type \in {"use", "delete"} =>
              /\ ops[k].ptrId = lines[k].args[1].value
              /\ \A j \in 1..(k - 1) :
                    LineKind(lines[j]) = "new" /\ NewsUpTo(lines, j) = ops[k].ptrId
                      => ops[k].pid = lines[j].args[1].text
  /\ nextPtrId = 1 + NewsUpTo(lines, Len(lines))

FileSubmitted == setupScreen.phase = "submitted" /\ setupScreen.handler = "none"

Generated ==
  /\ setupScreen.phase \in {"generated", "submitted", "rejected"}
  /\ setupScreen.handler # "none"

NewsAmong(ops, k) == Cardinality({j \in 1..k : ops[j].type = "new"})

\* The instruction at k names a pointer that the `new` at j < k introduced
\* for the same process and that nothing in between has freed.
IntroducedLive(ops, j, k) ==
  /\ ops[j].type = "new"
  /\ ops[j].ptrId = ops[k].ptrId
  /\ ops[j].pid = ops[k].pid
  /\ \A i \in (j + 1)..(k - 1) :
        /\ ~(ops[i].type = "delete" /\ ops[i].ptrId = ops[k].ptrId)
        /\ ~(ops[i].type = "kill" /\ ops[i].pid = ops[k].pid)

StreamWellFormed(ops, numOps) ==
  /\ Len(ops) <= numOps
  /\ \A k \in 1..Len(ops) :
        /\ ops[k].type = "new" => ops[k].ptrId = NewsAmong(ops, k)
        /\ ops[k].type \in {"use", "delete"} =>
              \E j \in 1..(k - 1) : IntroducedLive(ops, j, k)
        /\ \A j \in 1..(k - 1) : ops[j].type = "kill" => ops[k].pid # ops[j].pid

\* C28: in every stream generateOperations returns, whatever the draws, each
\* use/delete names a pointer an earlier `new` of the same process
\* introduced and nothing has freed since, the `new` instructions carry the
\* ptr_ids 1, 2, 3, ... in order, nothing of a process follows its kill,
\* and the stream has at most numOps instructions.
C28_GeneratedStreamWellFormed ==
  Generated => StreamWellFormed(setupScreen.operations, setupScreen.numOps)

\* A stream of MaxGenOps instructions with a delete and a kill was returned.
C28_Witness ==
  /\ Generated
  /\ Len(setupScreen.operations) = MaxGenOps
  /\ \E k \in 1..Len(setupScreen.operations) :
        setupScreen.operations[k].type = "delete"
  /\ \E k \in 1..Len(setupScreen.operations) :
        setupScreen.operations[k].type = "kill"

\* The process an instruction of the generator belongs to.
ProcessOf(op) == CHOOSE i \in 1..MaxProcs : PidName(i) = op.pid

\* One iteration of the loop has emitted an instruction for a process that
\* had no live pointer.
EmittedForIdleProcess ==
  /\ setupScreen.phase = "generating"
  /\ setupScreen'.phase = "generating"
  /\ setupScreen'.opCount = setupScreen.opCount + 1
  /\ setupScreen.processStates[
       ProcessOf(setupScreen'.operations[Len(setupScreen'.operations)])
     ].activePtrIds = <<>>

\* C29: whenever the process chosen for a step of generateOperations has no
\* live ptr_id, the instruction emitted for that step is a `new`.
C29_IdleProcessGetsNew ==
  [][EmittedForIdleProcess =>
       setupScreen'.operations[Len(setupScreen'.operations)].type = "new"]_vars

\* The `new` that introduced the pointer of the instruction at k.
IntroducedAt(ops, k) ==
  {j \in 1..Len(ops) : ops[j].type = "new" /\ ops[j].ptrId = ops[k].ptrId}

SameInstructions(generated, parsed) ==
  /\ Len(parsed) = Len(generated)
  /\ \A k \in 1..Len(generated) :
        /\ parsed[k].type = generated[k].type
        /\ generated[k].type = "new" =>
              /\ parsed[k].pid = generated[k].pid
              /\ parsed[k].size = generated[k].size
        /\ generated[k].type = "kill" => parsed[k].pid = generated[k].pid
        /\ generated[k].type \in {"use", "delete"} =>
              /\ IntroducedAt(parsed, k) = IntroducedAt(generated, k)
              /\ IntroducedAt(generated, k) # {}

\* handleSubmit has parsed the text kept by handleGenerateOperations.
GeneratedTextParsed ==
  /\ setupScreen.phase \in {"submitted", "rejected"}
  /\ setupScreen.handler = "handleGenerateOperations"

\* C26: the instructions parsed from the text written for a generated
\* stream are the generated ones: as many, of the same types in the same
\* order, with the pid and size of each `new`, the pid of each kill, and
\* each use/delete referring to the same `new`.
C26_RoundTrip ==
  GeneratedTextParsed =>
    SameInstructions(setupScreen.operations,
                     IF setupScreen.phase = "submitted"
                       THEN setupScreen.opsToSimulate ELSE <<>>)

\* A generated stream with a use of the second pointer and a kill went
\* through the text and back.
C26_Witness ==
  /\ GeneratedTextParsed
  /\ setupScreen.phase = "submitted"
  /\ \E k \in 1..Len(setupScreen.opsToSimulate) :
        /\ setupScreen.opsToSimulate[k].type \in {"use", "delete"}
        /\ setupScreen.opsToSimulate[k].ptrId = 2

\* ------------------------------------------------------------------------
\* The driver
\* ------------------------------------------------------------------------
\* The engine s, after the instructions from + 1 .. to of the stream are
\* applied to it once each, in order and each with its own index, is the
\* engine `engine`.
RECURSIVE AppliedInOrder(_, _, _, _)
AppliedInOrder(s, from, to, engine) ==
  IF from >= to THEN s = engine
  ELSE \E applied \in {processAlgorithmStep(s, operations[from + 1], operations, from)} :
         AppliedInOrder(applied, from + 1, to, engine)

\* C30: in every state of the driver, also after a step taken with the
\* stream exhausted, currentOperationIndex is at most the number of
\* instructions and each of the two engines is its initial state with
\* exactly the instructions 0 .. currentOperationIndex - 1 applied, once
\* each and in order; so a step that leaves the index where it is leaves
\* both engines as they were.
C30_LockStep ==
  /\ currentOperationIndex \in 0..Len(operations)
  /\ \E fresh \in {getInitialAlgorithmSimulationState("OPT", params.seed,
                                                      initialNextPtrId)} :
        AppliedInOrder(fresh, 0, currentOperationIndex, optSimState)
  /\ \E fresh \in {getInitialAlgorithmSimulationState(params.selectedAlgorithm,
                                                      params.seed, initialNextPtrId)} :
        AppliedInOrder(fresh, 0, currentOperationIndex, selectedAlgoSimState)

\* The whole stream was applied with pages brought in, and a further step
\* was taken at its end (only that step pauses an exhausted simulation).
C30_Witness ==
  /\ currentOperationIndex = Len(operations)
  /\ currentOperationIndex = MaxOps
  /\ isPaused
  /\ optSimState.mmu # <<>>
  /\ selectedAlgoSimState.metrics.pageFaults > 0

\* ------------------------------------------------------------------------
\* Reset
\* ------------------------------------------------------------------------
\* Engine e is as constructed for the policy `name`: all frames free with no
\* field set, no page, no pointer, zero metrics, hand at 0, and the
\* generator of seed + name before its first draw.
IsFresh(e, name) ==
  /\ e.algorithmName = name
  /\ Len(e.ramFrames) = TOTAL_RAM_FRAMES
  /\ \A f \in 1..Len(e.ramFrames) :
        /\ e.ramFrames[f].frameId = f - 1
        /\ ~e.ramFrames[f].isOccupied
        /\ e.ramFrames[f].logicalPageId = NoPageId
        /\ e.ramFrames[f].pid = NoPid
        /\ e.ramFrames[f].loadedTimestamp = UndefNum
        /\ e.ramFrames[f].lastAccessTimestamp = UndefNum
        /\ e.ramFrames[f].referencedBit = "undefined"
  /\ e.mmu = <<>>
  /\ DOMAIN e.activePointers = {}
  /\ e.metrics.pageFaults = 0
  /\ e.metrics.pageHits = 0
  /\ e.metrics.runningProcessesCount = 0
  /\ e.metrics.totalSimulationTime = 0
  /\ e.metrics.thrashingTime = 0
  /\ e.metrics.ramUsedKb = 0
  /\ e.metrics.vRamUsedKb = 0
  /\ e.metrics.internalFragmentationKb = 0
  /\ e.scHandPosition = 0
  /\ e.nextPtrIdToAssign = initialNextPtrId
  /\ e.rng.key = <<params.seed, name>>
  /\ e.rng.calls = 0
  /\ ~e.thrown

\* The run that follows a reset stands where the run before it stood at the
\* same index.
SameAsBefore(e, before) ==
  /\ SameEngine(e, before)
  /\ e.scHandPosition = before.scHandPosition
  /\ e.rng = before.rng
  /\ e.nextPtrIdToAssign = before.nextPtrIdToAssign

\* C31: a reset, after any number of steps and whether running or paused,
\* puts the index at 0, both engines in their freshly constructed state and
\* the playback on pause; and whenever the run that follows reaches the
\* index at which the run before the reset stood, both engines are in the
\* state they were in then.
C31_ResetReplays ==
  [][/\ currentOperationIndex' < currentOperationIndex =>
          /\ currentOperationIndex' = 0
          /\ isPaused'
          /\ IsFresh(optSimState', "OPT")
          /\ IsFresh(selectedAlgoSimState', params.selectedAlgorithm)
     /\ currentOperationIndex' = twin'.currentOperationIndex =>
          /\ SameAsBefore(optSimState', twin'.optSimState)
          /\ SameAsBefore(selectedAlgoSimState', twin'.selectedAlgoSimState)]_vars

\* A whole run under RND with draws was reset and run again to its end.
C31_Witness ==
  /\ params.selectedAlgorithm = "RND"
  /\ twin.currentOperationIndex = MaxOps
  /\ currentOperationIndex = MaxOps
  /\ selectedAlgoSimState.rng.calls >= 1
  /\ selectedAlgoSimState.metrics.pageFaults > TOTAL_RAM_FRAMES

\* ------------------------------------------------------------------------
\* Steps of the engines
\* ------------------------------------------------------------------------
\* The instruction a step of the driver applies.
StepOp == operations[currentOperationIndex + 1]

\* totalSimulationTime of engine e when the handling of page i of a `new`
\* begins: the pages before it went into the free frames, one hit each, as
\* long as there were any, and faulted after that.
NewPageBegins(e, i) ==
  e.metrics.totalSimulationTime
    + (IF i <= Cardinality(FreeFrames(e)) THEN i ELSE Cardinality(FreeFrames(e)))
        * HIT_TIME
    + (IF i <= Cardinality(FreeFrames(e)) THEN 0 ELSE i - Cardinality(FreeFrames(e)))
        * FAULT_TIME

\* A resident page and its frame carry the load timestamp t.
LoadedAt(e, k, t) ==
  /\ e.mmu[k].ramLoadTimestamp = t
  /\ e.ramFrames[e.mmu[k].frameId + 1].loadedTimestamp = t

\* The pages of the `new` applied in the step from e to eNext that are
\* resident carry the time at which their handling began.
NewStampedBeforeCost(e, eNext, op) ==
  \A k \in ResidentPages(eNext) :
     (eNext.mmu[k].ptrId = op.ptrId /\ eNext.mmu[k].pid = op.pid)
       => LoadedAt(eNext, k, NewPageBegins(e, eNext.mmu[k].pageIndexInPtr))

\* The single page of a pointer, brought in by the `use` applied in the
\* step from e to eNext, carries the time at which the step began.
UseStampedBeforeCost(e, eNext, op) ==
  (/\ op.ptrId \in DOMAIN e.activePointers
   /\ Len(e.activePointers[op.ptrId].pageIds) = 1)
    => \A k \in ResidentPages(eNext) :
          (/\ eNext.mmu[k].id = e.activePointers[op.ptrId].pageIds[1]
           /\ \E j \in SwappedPages(e) : e.mmu[j].id = eNext.mmu[k].id)
            => LoadedAt(eNext, k, e.metrics.totalSimulationTime)

\* C32: a page loaded by `new` or `use`, into a free frame or by eviction,
\* gets as ramLoadTimestamp, and its frame as loadedTimestamp, the
\* totalSimulationTime at which the handling of that page began; HIT_TIME or
\* FAULT_TIME is added only afterwards.
C32_StampsBeforeCost ==
  [][/\ StepApplies("new") =>
          /\ NewStampedBeforeCost(optSimState, optSimState', StepOp)
          /\ NewStampedBeforeCost(selectedAlgoSimState, selectedAlgoSimState', StepOp)
     /\ StepApplies("use") =>
          /\ UseStampedBeforeCost(optSimState, optSimState', StepOp)
          /\ UseStampedBeforeCost(selectedAlgoSimState, selectedAlgoSimState', StepOp)]_vars

\* The pages of pointer ptrId of process pid in the MMU of e, in MMU order.
PagesOfPointer(e, ptrId, pid) ==
  SelectSeq(e.mmu, LAMBDA page : page.ptrId = ptrId /\ page.pid = pid)

\* ceil(size / 4096)
PagesNeeded(size) == (size + PAGE_SIZE_BYTES - 1) \div PAGE_SIZE_BYTES

RECURSIVE SumContent(_, _)
SumContent(pages, k) ==
  IF k > Len(pages) THEN 0 ELSE pages[k].contentSizeBytes + SumContent(pages, k + 1)

\* The step from e to eNext added the pages of new(pid, size, ptr) and
\* registered them.
NewAddsPages(e, eNext, op) ==
  /\ Len(eNext.mmu) = Len(e.mmu) + PagesNeeded(op.size)
  /\ Len(PagesOfPointer(eNext, op.ptrId, op.pid)) = PagesNeeded(op.size)
  /\ \A k \in 1..Len(PagesOfPointer(eNext, op.ptrId, op.pid)) :
        /\ PagesOfPointer(eNext, op.ptrId, op.pid)[k].pageIndexInPtr = k - 1
        /\ PagesOfPointer(eNext, op.ptrId, op.pid)[k].contentSizeBytes =
             IF k < PagesNeeded(op.size) THEN PAGE_SIZE_BYTES
             ELSE op.size - (PagesNeeded(op.size) - 1) * PAGE_SIZE_BYTES
  /\ SumContent(PagesOfPointer(eNext, op.ptrId, op.pid), 1) = op.size
  /\ op.ptrId \in DOMAIN eNext.activePointers
  /\ eNext.activePointers[op.ptrId].pageIds =
       [k \in 1..Len(PagesOfPointer(eNext, op.ptrId, op.pid)) |->
          PagesOfPointer(eNext, op.ptrId, op.pid)[k].id]

\* C33: a new(pid, size, ptr) with size >= 1 adds exactly ceil(size/4096)
\* pages to the MMU, with page indexes 0, 1, ... in order, every page but
\* the last of 4096 bytes and the last of the remainder (4096 when there is
\* none), so that the sizes sum to size, and registers exactly their ids in
\* order under ptr; under every selectable policy, also when RAM is full.
C33_NewAddsPages ==
  [][(StepApplies("new") /\ StepOp.size >= 1) =>
       /\ NewAddsPages(optSimState, optSimState', StepOp)
       /\ NewAddsPages(selectedAlgoSimState, selectedAlgoSimState', StepOp)]_vars

\* The page named id is resident in engine state s.
IsResident(s, id) == \E j \in ResidentPages(s) : s.mmu[j].id = id

\* The turn of page id, from s to t, is booked as one hit when the page was
\* resident at its turn and as one fault, after which it is resident,
\* otherwise.
TurnBooked(s, t, id) ==
  IF IsResident(s, id)
    THEN /\ t.metrics.pageHits = s.metrics.pageHits + 1
         /\ t.metrics.pageFaults = s.metrics.pageFaults
         /\ t.metrics.totalSimulationTime = s.metrics.totalSimulationTime + HIT_TIME
         /\ t.metrics.thrashingTime = s.metrics.thrashingTime
    ELSE /\ t.metrics.pageHits = s.metrics.pageHits
         /\ t.metrics.pageFaults = s.metrics.pageFaults + 1
         /\ t.metrics.totalSimulationTime = s.metrics.totalSimulationTime + FAULT_TIME
         /\ t.metrics.thrashingTime = s.metrics.thrashingTime + FAULT_TIME
         /\ IsResident(t, id)

\* The turns of the pages pageIds[k], pageIds[k + 1], ... of a `use`, taken
\* one after the other from engine state s, are each booked and followed by
\* the next.
RECURSIVE UseTurns(_, _, _)
UseTurns(s, pageIds, k) ==
  IF k > Len(pageIds) THEN TRUE
  ELSE \E r \in {UsePageStep(s, pageIds[k], operations, currentOperationIndex)} :
         /\ TurnBooked(s, r.s, pageIds[k])
         /\ ~r.brk
         /\ UseTurns(r.s, pageIds, k + 1)

\* The whole use(p) from engine state e counts one hit or fault per page.
UseCountsPages(e, used, p) ==
  used.metrics.pageHits + used.metrics.pageFaults
    = e.metrics.pageHits + e.metrics.pageFaults + Len(e.activePointers[p].pageIds)

\* C34: for use(ptr) on a live ptr with k pages, in every reachable state
\* of either engine, each page is handled once in page order: one hit and
\* HIT_TIME if it is resident at its turn, one fault and FAULT_TIME on both
\* totalSimulationTime and thrashingTime otherwise, after which it is
\* resident; pageHits + pageFaults grows by exactly k.
C34_UseHandlesEachPage ==
  \A e \in Engines :
     \A p \in DOMAIN e.activePointers :
        /\ UseTurns(e, e.activePointers[p].pageIds, 1)
        /\ \E used \in {processAlgorithmStep(e, UseOp(p), operations,
                                             currentOperationIndex)} :
              UseCountsPages(e, used, p)

\* The active ptr_ids of pid in engine state e.
PointersOfPid(e, pid) ==
  {p \in DOMAIN e.activePointers : e.activePointers[p].pid = pid}

\* Applying delete to the pointers ptrIds[k], ptrIds[k + 1], ... in turn
\* from engine state s gives the engine state killed.
RECURSIVE DeletedInTurn(_, _, _, _)
DeletedInTurn(s, ptrIds, k, killed) ==
  IF k > Len(ptrIds)
    THEN /\ SameEngine(s, killed)
         /\ s.scHandPosition = killed.scHandPosition
  ELSE \E deleted \in {processAlgorithmStep(s, DeleteOp(ptrIds[k]), operations,
                                            currentOperationIndex)} :
         DeletedInTurn(deleted, ptrIds, k + 1, killed)

\* C35: in every reachable state of either engine, kill(pid) gives the
\* state that delete applied to each active ptr_id of pid in turn gives,
\* every field of the freed frames included.
C35_KillIsDeletes ==
  \A e \in Engines :
     \A pid \in Pids :
        \E killed \in {processAlgorithmStep(e, KillOp(pid), operations,
                                            currentOperationIndex)} :
           DeletedInTurn(e, SortedSeq(PointersOfPid(e, pid)), 1, killed)

\* The turn of page id, from engine state e to the result r of its loop
\* iteration, put the page in a frame that was free and left every other
\* frame and page, the SC hand and the generator as they were.
PlacedInFreeFrame(e, r, id) ==
  /\ ~r.brk
  /\ \E f \in FreeFrames(e) :
        /\ r.s.ramFrames[f].isOccupied
        /\ r.s.ramFrames[f].logicalPageId = id
        /\ \E k \in ResidentPages(r.s) :
              r.s.mmu[k].id = id /\ r.s.mmu[k].frameId = f - 1
  /\ \A f \in 1..Len(e.ramFrames) :
        r.s.ramFrames[f].logicalPageId # id => r.s.ramFrames[f] = e.ramFrames[f]
  /\ \A k \in 1..Len(e.mmu) : e.mmu[k].id # id => r.s.mmu[k] = e.mmu[k]
  /\ r.s.scHandPosition = e.scHandPosition
  /\ r.s.rng = e.rng

\* A `new` of one page for a pointer not yet used.
OnePageNew(e) == Instruction("new", "P3", PAGE_SIZE_BYTES, e.nextPtrIdToAssign)

\* C36: in every reachable state of either engine with a free frame, the
\* page of a `new` and a faulting page of a `use` are placed in a free
\* frame: no page is evicted, no policy draws, and the SC hand and the
\* frames, residency and reference bits of the other pages are unchanged.
C36_FreeFrameFirst ==
  \A e \in Engines :
     FreeFrames(e) # {} =>
       /\ \E r \in {NewPageStep(e, OnePageNew(e), 0, 1, operations,
                                currentOperationIndex)} :
             PlacedInFreeFrame(e, r, LogicalPageId(e.nextPtrIdToAssign, 0, "P3"))
       /\ \A k \in SwappedPages(e) :
             \E r \in {UsePageStep(e, e.mmu[k].id, operations,
                                   currentOperationIndex)} :
                PlacedInFreeFrame(e, r, e.mmu[k].id)

\* An engine stands with a free frame beside occupied ones and a swapped
\* page, after an allocation larger than the RAM, an eviction and a kill.
C36_Witness ==
  /\ currentOperationIndex = MaxOps
  /\ LastOpIs("kill")
  /\ \E e \in Engines :
        /\ FreeFrames(e) # {}
        /\ ResidentPages(e) # {}
        /\ SwappedPages(e) # {}
        /\ e.algorithmName = "SC"

\* The step from engine state old to new cost nothing and left the SC hand
\* where it was.
CostsNothing(old, new) ==
  /\ new.metrics.pageHits = old.metrics.pageHits
  /\ new.metrics.pageFaults = old.metrics.pageFaults
  /\ new.metrics.totalSimulationTime = old.metrics.totalSimulationTime
  /\ new.metrics.thrashingTime = old.metrics.thrashingTime
  /\ new.scHandPosition = old.scHandPosition

\* Everything that does not belong to the pointer ptrId is as it was.
OtherPointersUntouched(old, new, ptrId) ==
  /\ SelectSeq(new.mmu, LAMBDA page : page.ptrId # ptrId)
       = SelectSeq(old.mmu, LAMBDA page : page.ptrId # ptrId)
  /\ \A f \in 1..Len(old.ramFrames) :
        (\A k \in 1..Len(old.mmu) :
            old.mmu[k].ptrId = ptrId => old.mmu[k].id # old.ramFrames[f].logicalPageId)
          => new.ramFrames[f] = old.ramFrames[f]
  /\ \A p \in DOMAIN old.activePointers :
        p # ptrId => /\ p \in DOMAIN new.activePointers
                     /\ new.activePointers[p] = old.activePointers[p]
  /\ \A p \in DOMAIN new.activePointers : p \in DOMAIN old.activePointers

\* Everything that does not belong to the process pid is as it was.
OtherProcessesUntouched(old, new, pid) ==
  /\ SelectSeq(new.mmu, LAMBDA page : page.pid # pid)
       = SelectSeq(old.mmu, LAMBDA page : page.pid # pid)
  /\ \A f \in 1..Len(old.ramFrames) :
        (\A k \in 1..Len(old.mmu) :
            old.mmu[k].pid = pid => old.mmu[k].id # old.ramFrames[f].logicalPageId)
          => new.ramFrames[f] = old.ramFrames[f]
  /\ \A p \in DOMAIN old.activePointers :
        old.activePointers[p].pid # pid =>
          /\ p \in DOMAIN new.activePointers
          /\ new.activePointers[p] = old.activePointers[p]
  /\ \A p \in DOMAIN new.activePointers : p \in DOMAIN old.activePointers

\* C37: delete and kill leave pageHits, pageFaults, totalSimulationTime,
\* thrashingTime and the SC hand as they were, and leave as it was every
\* page, frame and activePointers entry that does not belong to the deleted
\* ptr_id or to the killed pid.
C37_DeleteKillFrame ==
  [][/\ StepApplies("delete") =>
          /\ CostsNothing(optSimState, optSimState')
          /\ CostsNothing(selectedAlgoSimState, selectedAlgoSimState')
          /\ OtherPointersUntouched(optSimState, optSimState', StepOp.ptrId)
          /\ OtherPointersUntouched(selectedAlgoSimState, selectedAlgoSimState',
                                    StepOp.ptrId)
     /\ StepApplies("kill") =>
          /\ CostsNothing(optSimState, optSimState')
          /\ CostsNothing(selectedAlgoSimState, selectedAlgoSimState')
          /\ OtherProcessesUntouched(optSimState, optSimState', StepOp.pid)
          /\ OtherProcessesUntouched(selectedAlgoSimState, selectedAlgoSimState',
                                     StepOp.pid)]_vars

\* A delete has removed a pointer with resident pages while another
\* pointer keeps resident pages and time has been spent.
C37_Witness ==
  /\ LastOpIs("delete")
  /\ \A e \in Engines :
        /\ LastOp.ptrId \notin DOMAIN e.activePointers
        /\ DOMAIN e.activePointers # {}
        /\ ResidentPages(e) # {}
        /\ FreeFrames(e) # {}
        /\ e.metrics.totalSimulationTime > 0

\* ------------------------------------------------------------------------
\* The two engines side by side
\* ------------------------------------------------------------------------
PageIds(e) == {e.mmu[k].id : k \in 1..Len(e.mmu)}

ResidentIds(e) == {e.mmu[k].id : k \in ResidentPages(e)}

\* C38: when the chosen policy is FIFO, SC, MRU or RND, the OPT engine and
\* the chosen engine hold, after every step, the same set of logical page
\* ids in their MMUs and the same activePointers table, hence the same
\* runningProcessesCount and the same pageHits + pageFaults.
C38_EnginesDifferInResidency ==
  params.selectedAlgorithm \in {"FIFO", "SC", "MRU", "RND"} =>
    /\ PageIds(selectedAlgoSimState) = PageIds(optSimState)
    /\ selectedAlgoSimState.activePointers = optSimState.activePointers
    /\ selectedAlgoSimState.metrics.runningProcessesCount
         = optSimState.metrics.runningProcessesCount
    /\ selectedAlgoSimState.metrics.pageHits + selectedAlgoSimState.metrics.pageFaults
         = optSimState.metrics.pageHits + optSimState.metrics.pageFaults

\* The engines have evicted different pages and then gone through a use of
\* the pointer, with different numbers of faults.
C38_Witness ==
  /\ params.selectedAlgorithm \in {"FIFO", "SC", "MRU", "RND"}
  /\ LastOpIs("use")
  /\ ResidentIds(selectedAlgoSimState) # ResidentIds(optSimState)
  /\ selectedAlgoSimState.metrics.pageFaults # optSimState.metrics.pageFaults
  /\ DOMAIN optSimState.activePointers # {}

\* ------------------------------------------------------------------------
\* Evictions
\* ------------------------------------------------------------------------
OccupiedCount(e) == Cardinality({f \in 1..Len(e.ramFrames) : e.ramFrames[f].isOccupied})

\* The pages resident before a page turn and swapped after it.
Evicted(s, t) ==
  {s.mmu[k].id : k \in ResidentPages(s)}
    \cap {t.mmu[k].id : k \in SwappedPages(t)}

\* The turn of page id, from s to t, evicts at most one page, not the page
\* itself, only when no frame was free, and then puts the page in RAM
\* without changing the number of occupied frames; that number never goes
\* down and never exceeds the number of frames.
TurnEvictsOneForOne(s, t, id) ==
  /\ Evicted(s, t) # {} =>
        /\ FreeFrames(s) = {}
        /\ Cardinality(Evicted(s, t)) = 1
        /\ id \notin Evicted(s, t)
        /\ IsResident(t, id)
        /\ OccupiedCount(t) = OccupiedCount(s)
  /\ OccupiedCount(t) >= OccupiedCount(s)
  /\ OccupiedCount(t) <= TOTAL_RAM_FRAMES

\* The page turns k, k + 1, ... of a `use` from engine state s.
RECURSIVE UseTurnsEvict(_, _, _)
UseTurnsEvict(s, pageIds, k) ==
  IF k > Len(pageIds) THEN TRUE
  ELSE \E r \in {UsePageStep(s, pageIds[k], operations, currentOperationIndex)} :
         /\ TurnEvictsOneForOne(s, r.s, pageIds[k])
         /\ r.brk \/ UseTurnsEvict(r.s, pageIds, k + 1)

\* The page turns i, i + 1, ... of the `new` op from engine state s.
RECURSIVE NewTurnsEvict(_, _, _, _)
NewTurnsEvict(s, op, i, numPagesNeeded) ==
  IF i >= numPagesNeeded THEN TRUE
  ELSE \E r \in {NewPageStep(s, op, i, numPagesNeeded, operations,
                             currentOperationIndex)} :
         /\ TurnEvictsOneForOne(s, r.s, LogicalPageId(op.ptrId, i, op.pid))
         /\ r.brk \/ NewTurnsEvict(r.s, op, i + 1, numPagesNeeded)

\* A `new` of one page more than the RAM has frames, for a pointer not yet
\* used.
LargeNew(e) ==
  Instruction("new", "P3", (TOTAL_RAM_FRAMES + 1) * PAGE_SIZE_BYTES,
              e.nextPtrIdToAssign)

\* C39: in every reachable state of either engine the occupied frames are
\* at most TOTAL_RAM_FRAMES, and in every page turn of a `use` of a live
\* pointer and of a `new`, a page goes from resident to swapped only when
\* every frame was occupied at that turn, it is one page and not the page
\* being loaded, the loaded page takes its place, and the number of
\* occupied frames does not go down (only delete and kill free frames).
C39_EvictionsOneForOne ==
  \A e \in Engines :
     /\ OccupiedCount(e) <= TOTAL_RAM_FRAMES
     /\ \A p \in DOMAIN e.activePointers :
           UseTurnsEvict(e, e.activePointers[p].pageIds, 1)
     /\ NewTurnsEvict(e, LargeNew(e), 0, TOTAL_RAM_FRAMES + 1)

\* An engine with a full RAM and swapped pages of a live pointer has just
\* gone through a use that faulted.
C39_Witness ==
  /\ LastOpIs("use")
  /\ \E e \in Engines :
        /\ RamIsFull(e)
        /\ SwappedPages(e) # {}
        /\ e.metrics.pageFaults >= 2
        /\ LastOp.ptrId \in DOMAIN e.activePointers

\* ------------------------------------------------------------------------
\* Frames and the pages they hold
\* ------------------------------------------------------------------------
\* The occupied frame f of engine e carries the pid, timestamps and
\* reference bit of the resident page it names.
FrameMirrorsPage(e, f) ==
  \E k \in ResidentPages(e) :
     /\ e.mmu[k].id = e.ramFrames[f].logicalPageId
     /\ e.ramFrames[f].pid = e.mmu[k].pid
     /\ e.ramFrames[f].loadedTimestamp = e.mmu[k].ramLoadTimestamp
     /\ e.ramFrames[f].lastAccessTimestamp = e.mmu[k].ramLastAccessTimestamp
     /\ e.ramFrames[f].referencedBit = e.mmu[k].referencedBit
     /\ e.ramFrames[f].loadedTimestamp # UndefNum
     /\ e.ramFrames[f].lastAccessTimestamp # UndefNum

\* The reference bit is a boolean on the pages and occupied frames of the
\* SC engine and undefined everywhere in the others.
RBitOnlyInSc(e) ==
  IF e.algorithmName = "SC"
    THEN /\ \A k \in 1..Len(e.mmu) : e.mmu[k].referencedBit \in {"true", "false"}
         /\ \A f \in 1..Len(e.ramFrames) :
               e.ramFrames[f].isOccupied =>
                 e.ramFrames[f].referencedBit \in {"true", "false"}
    ELSE /\ \A k \in 1..Len(e.mmu) : e.mmu[k].referencedBit = "undefined"
         /\ \A f \in 1..Len(e.ramFrames) : e.ramFrames[f].referencedBit = "undefined"

\* C40: after every instruction, in both engines, every occupied frame has
\* the pid, loadedTimestamp, lastAccessTimestamp and referencedBit of the
\* resident page it holds (the page's pid, ramLoadTimestamp,
\* ramLastAccessTimestamp and referencedBit), and referencedBit is defined
\* only in the SC engine.
C40_FramesMirrorPages ==
  \A e \in Engines :
     /\ \A f \in 1..Len(e.ramFrames) :
           e.ramFrames[f].isOccupied => FrameMirrorsPage(e, f)
     /\ RBitOnlyInSc(e)

\* The SC engine holds a page brought back by a use (its last access is
\* older than its load) and a page whose reference bit is set.
C40_Witness ==
  /\ selectedAlgoSimState.algorithmName = "SC"
  /\ LastOpIs("use")
  /\ \E k \in ResidentPages(selectedAlgoSimState) :
        selectedAlgoSimState.mmu[k].ramLastAccessTimestamp
          < selectedAlgoSimState.mmu[k].ramLoadTimestamp
  /\ \E f \in 1..TOTAL_RAM_FRAMES :
        selectedAlgoSimState.ramFrames[f].referencedBit = "true"

====
